---- MODULE Spec2Model ----
(***************************************************************************)
(* HENSAD: pinch analysis and heat-exchanger-network design.               *)
(*                                                                         *)
(* The model follows gui/models/core.py (class Setup) and the engine       *)
(* functions of hensad/__init__.py that Setup._update_summary calls.       *)
(* Temperatures, flows, heat capacities and duties are integers; the       *)
(* inputs are drawn from sets on which every product mf*cp*dT and every    *)
(* quotient duty/(mf*cp) of the code is an exact integer, so the integer   *)
(* arithmetic below is the float arithmetic of the code on these inputs.   *)
(* Python indexes are 0-based, the sequences below are 1-based: a stored   *)
(* stream index k stands for the Python index k-1.                         *)
(***************************************************************************)
EXTENDS Integers, Sequences, FiniteSets, TLC

(***************************************************************************)
(* Rows of the data frames, with the columns of the FrameColumnMapperEnum  *)
(* classes of hensad/__init__.py that the model keeps                      *)
(***************************************************************************)
(* StreamFrameMapper *)
Stream(stream_id, flow, cp, tin, tout) ==
    [ID |-> stream_id, FLOW |-> flow, CP |-> cp, TIN |-> tin, TOUT |-> tout]

(* FilmCoefficientsFrameMapper *)
Film(stream_id, coef) == [ID |-> stream_id, COEF |-> coef]

(* StreamFilmCoefficientFrameMapper: a stream row with its coefficient *)
StreamFilm(s, coef) ==
    [ID |-> s.ID, FLOW |-> s.FLOW, CP |-> s.CP, TIN |-> s.TIN, TOUT |-> s.TOUT,
     COEF |-> coef]

(* HeatFlowFrameMapper *)
HeatFlowRow(util, out, exheat) == [UTIL |-> util, OUT |-> out, EXHEAT |-> exheat]

(* SummaryFrameMapper; row i of the table is the interval "I-i" *)
SummaryRow(tin, tout, exheat, cumheat, hotstridx, coldstridx) ==
    [TIN |-> tin, TOUT |-> tout, EXHEAT |-> exheat, CUMHEAT |-> cumheat,
     HOTSTRIDX |-> hotstridx, COLDSTRIDX |-> coldstridx]

(* HeatExchangerDesignFrameMapper *)
ExchangerRow(ex_id, duty, source, dest, h_tin, h_tout, c_tin, c_tout, dtln) ==
    [ID |-> ex_id, DUTY |-> duty, SOURCE |-> source, DEST |-> dest,
     HOT_IN |-> h_tin, HOT_OUT |-> h_tout, COLD_IN |-> c_tin, COLD_OUT |-> c_tout,
     DT |-> dtln]

(* a row of the borders frame of _build_composite_borders *)
BorderRow(hot_t, cold_t, q) == [hot |-> hot_t, cold |-> cold_t, Q |-> q]

(* SegmentsFrameMapper, without the DTLN and SUM_QH columns, and the       *)
(* stream columns of the segments frame: Qh[k] / Qc[k] is the enthalpy     *)
(* written for the hot / cold stream of index k, 0 where none is written   *)
SegmentRow(hot_1, hot_2, cold_1, cold_2, q, qh, qc) ==
    [HOT_IN |-> hot_1, HOT_OUT |-> hot_2, COLD_IN |-> cold_1, COLD_OUT |-> cold_2,
     Q |-> q, Qh |-> qh, Qc |-> qc]

(* a row of COST_DATA for one (TYPE, ARRANGEMENT): its PRESSURE label and  *)
(* its pressure and area limits; the label stands for the coefficients     *)
CostRow(ptype, pmin, pmax, amin, amax) ==
    [PRESSURE |-> ptype, PMIN |-> pmin, PMAX |-> pmax, AMIN |-> amin, AMAX |-> amax]

(* np.NaN: the value of an unset float (dt, pinch, a film coefficient).    *)
NaN == -999999999

(* A partition table built by DataFrame.copy() of a stream table has no    *)
(* film-coefficient column at all; its rows carry this marker.             *)
NoColumn == -999999998

(***************************************************************************)
(* Bounds of the model                                                     *)
(***************************************************************************)
MaxStreams == 2          \* rows per stream table that add_stream may reach
MaxOps == 3              \* operations after construction or after a load, per run
MaxRejections == 1       \* calls per run that raise an exception to their caller

(***************************************************************************)
(* Generic helpers on sequences and sets of integers                       *)
(***************************************************************************)
Abs(x) == IF x < 0 THEN 0 - x ELSE x

SetMax(S) == CHOOSE m \in S : \A x \in S : x <= m

RECURSIVE SortDesc(_)
SortDesc(S) == IF S = {} THEN <<>>
               ELSE LET m == SetMax(S) IN <<m>> \o SortDesc(S \ {m})

RECURSIVE SumSeq(_)
SumSeq(s) == IF s = <<>> THEN 0 ELSE Head(s) + SumSeq(Tail(s))

RECURSIVE SelectIdx(_, _, _)
(* the indexes i of 1..n, in increasing order, for which P[i] holds *)
SelectIdx(P, i, n) ==
    IF i > n THEN <<>>
    ELSE (IF P[i] THEN <<i>> ELSE <<>>) \o SelectIdx(P, i + 1, n)

RemoveAt(s, i) == SubSeq(s, 1, i - 1) \o SubSeq(s, i + 1, Len(s))

(***************************************************************************)
(* hensad.calculate_intervals                                              *)
(***************************************************************************)
calculate_intervals(hot, cold, dt) ==
    LET h_t == {hot[i].TIN : i \in DOMAIN hot} \cup {hot[i].TOUT : i \in DOMAIN hot}
        c_t == {cold[i].TIN : i \in DOMAIN cold} \cup {cold[i].TOUT : i \in DOMAIN cold}
    IN  SortDesc(h_t \cup {t + dt : t \in c_t})

(***************************************************************************)
(* hensad.calculate_summary_table                                          *)
(***************************************************************************)
SummaryRaises(hot, cold, dt) ==
    hot = <<>> \/ cold = <<>> \/ dt = NaN \/ dt <= 0

(* a variant that does not look at the outlet of the stream *)
HotInInterval_above(s, itin, itout) == s.TIN >= itin

HotInInterval(s, itin, itout) ==
    s.TIN = itin \/ s.TOUT = itout \/ (s.TIN >= itin /\ s.TOUT <= itout)

ColdInInterval(s, dt, itin, itout) ==
    (s.TIN + dt) = itout \/ (s.TOUT + dt) = itin
        \/ ((s.TIN + dt) <= itout /\ (s.TOUT + dt) >= itin)

RECURSIVE StreamHeat(_, _, _)
(* sum over the stream indexes idx of FLOW * CP * width *)
StreamHeat(tbl, idx, width) ==
    IF idx = <<>> THEN 0
    ELSE tbl[Head(idx)].FLOW * tbl[Head(idx)].CP * width
         + StreamHeat(tbl, Tail(idx), width)

IntervalRow(hot, cold, dt, hint, i) ==
    LET itin == hint[i]
        itout == hint[i + 1]
        hs == SelectIdx([k \in DOMAIN hot |-> HotInInterval(hot[k], itin, itout)],
                        1, Len(hot))
        cs == SelectIdx([k \in DOMAIN cold |-> ColdInInterval(cold[k], dt, itin, itout)],
                        1, Len(cold))
    IN  SummaryRow(itin, itout,
                   StreamHeat(hot, hs, itin - itout) + StreamHeat(cold, cs, itout - itin),
                   0, hs, cs)

RECURSIVE AddCumHeat(_, _)
AddCumHeat(rows, prev) ==
    IF rows = <<>> THEN <<>>
    ELSE LET r == Head(rows)
             c == r.EXHEAT + prev
         IN  <<[r EXCEPT !.CUMHEAT = c]>> \o AddCumHeat(Tail(rows), c)

(* defined when ~SummaryRaises(hot, cold, dt); row i is interval "I-i" *)
calculate_summary_table(hot, cold, dt) ==
    CHOOSE rows \in
        {AddCumHeat([i \in 1..(Len(hint) - 1) |-> IntervalRow(hot, cold, dt, hint, i)], 0) :
            hint \in {calculate_intervals(hot, cold, dt)}} : TRUE

(***************************************************************************)
(* hensad.calculate_pinch_utilities                                        *)
(***************************************************************************)
ExHeatCol(summary) == [i \in DOMAIN summary |-> summary[i].EXHEAT]

(* The loop runs i = n-1 .. 1 (0-based) and breaks at the first i with     *)
(* ex_heat <= 0 and i != n-1; 1-based these are the rows 2 .. n-1.         *)
PinchBreakRows(summary) ==
    {j \in 2..(Len(summary) - 1) : summary[j].EXHEAT <= 0}

(* no break: pinch_idx is read before assignment (UnboundLocalError) *)
PinchRaises(summary) == PinchBreakRows(summary) = {}

(* a variant without the fall back to None *)
PinchIdx_nofallback(summary) == SetMax(PinchBreakRows(summary))

(* defined when ~PinchRaises(summary); pinch_idx as a 1-based row, 0 for None *)
PinchIdx(summary) ==
    LET j == SetMax(PinchBreakRows(summary))
    IN  IF summary[j + 1].EXHEAT <= 0 THEN 0 ELSE j

calculate_pinch_utilities(summary) ==
    LET n == Len(summary)
        ex == ExHeatCol(summary)
        p == PinchIdx(summary)
    IN  IF p = 0
        THEN [pinch |-> NaN, huq |-> Abs(SumSeq(ex)), cuq |-> 0]
        ELSE [pinch |-> summary[p].TOUT,
              huq |-> Abs(SumSeq(SubSeq(ex, 1, p))),
              cuq |-> Abs(SumSeq(SubSeq(ex, p + 1, n)))]

(***************************************************************************)
(* hensad.pinch_streams_tables                                             *)
(***************************************************************************)
RECURSIVE JoinFilm(_, _)
(* DataFrame.join on the stream id (a left join): one row per matching     *)
(* film record, in order, and a NaN coefficient when there is none.        *)
JoinFilm(rows, film) ==
    IF rows = <<>> THEN <<>>
    ELSE LET r == Head(rows)
             m == SelectIdx([k \in DOMAIN film |-> film[k].ID = r.ID], 1, Len(film))
         IN  (IF m = <<>> THEN <<StreamFilm(r, NaN)>>
              ELSE [k \in DOMAIN m |-> StreamFilm(r, film[m[k]].COEF)])
             \o JoinFilm(Tail(rows), film)

(* a variant that returns the empty frame *)
CopyStreams_none(tbl) == <<>>

(* DataFrame.copy of a stream table: the rows, without coefficient column *)
CopyStreams(tbl) ==
    [k \in DOMAIN tbl |-> StreamFilm(tbl[k], NoColumn)]

SelectRows(tbl, P(_)) ==
    LET idx == SelectIdx([k \in DOMAIN tbl |-> P(tbl[k])], 1, Len(tbl))
    IN  [k \in DOMAIN idx |-> tbl[idx[k]]]

HotAboveRows(hot, hot_pinch) ==
    LET In(s) == s.TIN >= hot_pinch
        sel == SelectRows(hot, In)
    IN  [k \in DOMAIN sel |->
            IF sel[k].TOUT < hot_pinch THEN [sel[k] EXCEPT !.TOUT = hot_pinch]
            ELSE sel[k]]

ColdAboveRows(cold, cold_pinch) ==
    LET In(s) == s.TOUT >= cold_pinch
        sel == SelectRows(cold, In)
    IN  [k \in DOMAIN sel |->
            IF sel[k].TIN < cold_pinch THEN [sel[k] EXCEPT !.TIN = cold_pinch]
            ELSE sel[k]]

(* a variant that leaves the inlet above the pinch *)
HotBelowRows_noclamp(hot, hot_pinch) ==
    LET In(s) == s.TOUT < hot_pinch
    IN  SelectRows(hot, In)

HotBelowRows(hot, hot_pinch) ==
    LET In(s) == s.TOUT < hot_pinch
        sel == SelectRows(hot, In)
    IN  [k \in DOMAIN sel |->
            IF sel[k].TIN >= hot_pinch THEN [sel[k] EXCEPT !.TIN = hot_pinch]
            ELSE sel[k]]

ColdBelowRows(cold, cold_pinch) ==
    LET In(s) == s.TIN < cold_pinch
        sel == SelectRows(cold, In)
    IN  [k \in DOMAIN sel |->
            IF sel[k].TOUT >= cold_pinch THEN [sel[k] EXCEPT !.TOUT = cold_pinch]
            ELSE sel[k]]

pinch_streams_tables(hot, cold, dt, pinch, hot_film, cold_film) ==
    IF pinch = NaN
    THEN [ha |-> CopyStreams(hot), ca |-> CopyStreams(cold), hb |-> <<>>, cb |-> <<>>]
    ELSE [ha |-> JoinFilm(HotAboveRows(hot, pinch), hot_film),
          ca |-> JoinFilm(ColdAboveRows(cold, pinch - dt), cold_film),
          hb |-> JoinFilm(HotBelowRows(hot, pinch), hot_film),
          cb |-> JoinFilm(ColdBelowRows(cold, pinch - dt), cold_film)]

(***************************************************************************)
(* hensad.calculate_minimum_exchangers                                     *)
(***************************************************************************)
calculate_minimum_exchangers(hot, cold, section) ==
    Len(hot) + Len(cold)
    + (IF section = "above" THEN 1 ELSE 0)
    + (IF section = "below" THEN 1 ELSE 0) - 1

(***************************************************************************)
(* hensad.calculate_heat_flows                                             *)
(***************************************************************************)
RECURSIVE HeatFlowRows(_, _)
HeatFlowRows(ex, out_prev) ==
    IF ex = <<>> THEN <<>>
    ELSE LET out == out_prev + Head(ex)
             row == IF out <= 0
                    THEN HeatFlowRow(Abs(out), 0, Head(ex))
                    ELSE HeatFlowRow(0, out, Head(ex))
         IN  <<row>> \o HeatFlowRows(Tail(ex), row.OUT)

(* variant: out_prev is not carried to the next row *)
calculate_heat_flows_no_carry(summary) ==
    [i \in DOMAIN summary |-> HeatFlowRows(<<summary[i].EXHEAT>>, 0)[1]]

(* defined for a non-empty summary (an empty one raises ValueError) *)
calculate_heat_flows(summary) == HeatFlowRows(ExHeatCol(summary), 0)

(***************************************************************************)
(* hensad.calculate_composite_enthalpy                                     *)
(***************************************************************************)
Reverse(s) == [i \in DOMAIN s |-> s[Len(s) + 1 - i]]

RECURSIVE CompositePoints(_, _, _, _, _)
(* hs: the summary sorted by ascending TIN; shift: 0 (hot) or dt (cold) *)
CompositePoints(hs, tbl, isHot, shift, cumq) ==
    IF hs = <<>> THEN <<>>
    ELSE LET r == Head(hs)
             idx == IF isHot THEN r.HOTSTRIDX ELSE r.COLDSTRIDX
             q == cumq + StreamHeat(tbl, idx, r.TIN - r.TOUT)
         IN  <<[Q |-> q, T |-> r.TIN - shift]>>
             \o CompositePoints(Tail(hs), tbl, isHot, shift, q)

(* variant: the cold cumulative heat starts at 0 instead of cuq *)
calculate_composite_enthalpy_from_zero(hot, cold, dt, huq, cuq, summary) ==
    LET hs == Reverse(summary)
    IN  [hTQ |-> <<[Q |-> 0, T |-> hs[1].TOUT]>>
                 \o CompositePoints(hs, hot, TRUE, 0, 0),
         cTQ |-> <<[Q |-> 0, T |-> hs[1].TOUT - dt]>>
                 \o CompositePoints(hs, cold, FALSE, dt, 0)]

calculate_composite_enthalpy(hot, cold, dt, huq, cuq, summary) ==
    LET hs == Reverse(summary)
    IN  [hTQ |-> <<[Q |-> 0, T |-> hs[1].TOUT]>>
                 \o CompositePoints(hs, hot, TRUE, 0, 0),
         cTQ |-> <<[Q |-> cuq, T |-> hs[1].TOUT - dt]>>
                 \o CompositePoints(hs, cold, FALSE, dt, cuq)]

(***************************************************************************)
(* The borders and segments of the composite diagram.  A temperature read  *)
(* off a curve is a multiple of 1 / (sum of mf * cp) of the piece: border  *)
(* and segment temperatures are kept in 1/Grid degrees, which is exact for *)
(* every sum of mf * cp up to 6.                                           *)
(***************************************************************************)
Grid == 60

(* hensad._search_enthalpy_interval: the first piece of non-zero width     *)
(* that holds Q, as <<qlb, tlb, qub, tub>>; all NaN when there is none     *)
_search_enthalpy_interval(Q, composite) ==
    LET holds == {i \in 1..(Len(composite) - 1) :
                     /\ composite[i].Q <= Q /\ Q <= composite[i + 1].Q
                     /\ composite[i].Q # composite[i + 1].Q}
    IN  IF holds = {} THEN <<NaN, NaN, NaN, NaN>>
        ELSE LET i == CHOOSE m \in holds : \A x \in holds : m <= x
             IN  <<composite[i].Q, composite[i].T,
                   composite[i + 1].Q, composite[i + 1].T>>

(* hensad._interpolate_temperature_in_interval, in 1/Grid degrees; the     *)
(* linear system with NaN entries solves to NaN                            *)
_interpolate_temperature_in_interval(Q, Qi, Ti, Qf, Tf) ==
    IF Qi = NaN THEN NaN
    ELSE Grid * Ti + ((Q - Qi) * (Tf - Ti) * Grid) \div (Qf - Qi)

(* the temperature of a curve at Q *)
TemperatureAt(Q, composite) ==
    LET iv == _search_enthalpy_interval(Q, composite)
    IN  _interpolate_temperature_in_interval(Q, iv[1], iv[2], iv[3], iv[4])

(* the two borders that iteration i of _build_composite_borders appends *)
BordersOfPoint(hTQ, cTQ, i) ==
    LET hQ == hTQ[i].Q
        cQ == cTQ[i].Q
    IN  IF i = 1
        THEN << BorderRow(Grid * hTQ[i].T, NaN, hQ),
                BorderRow(TemperatureAt(cQ, hTQ), Grid * cTQ[i].T, cQ) >>
        ELSE IF i = Len(cTQ)
        THEN << BorderRow(Grid * hTQ[i].T, TemperatureAt(hQ, cTQ), hQ),
                BorderRow(NaN, Grid * cTQ[i].T, cQ) >>
        ELSE << BorderRow(TemperatureAt(hQ, hTQ), TemperatureAt(hQ, cTQ), hQ),
                BorderRow(TemperatureAt(cQ, hTQ), TemperatureAt(cQ, cTQ), cQ) >>

(* borders.sort_values(by='Q'): rows of equal Q keep their order *)
SortByQ(rows) ==
    LET rank(i) == Cardinality({j \in DOMAIN rows :
                                   \/ rows[j].Q < rows[i].Q
                                   \/ rows[j].Q = rows[i].Q /\ j <= i})
    IN  [k \in DOMAIN rows |-> rows[CHOOSE i \in DOMAIN rows : rank(i) = k]]

(* DataFrame.drop_duplicates: rows of equal key are duplicates; the first *)
(* (or the last) row of every group is kept                               *)
KeepFirst(rows, key) ==
    LET keep == [i \in DOMAIN rows |-> \A j \in 1..(i - 1) : key[j] # key[i]]
    IN  CHOOSE r \in {[k \in DOMAIN kept |-> rows[kept[k]]] :
                         kept \in {SelectIdx(keep, 1, Len(rows))}} : TRUE

KeepLast(rows, key) ==
    LET keep == [i \in DOMAIN rows |-> \A j \in (i + 1)..Len(rows) : key[j] # key[i]]
    IN  CHOOSE r \in {[k \in DOMAIN kept |-> rows[kept[k]]] :
                         kept \in {SelectIdx(keep, 1, Len(rows))}} : TRUE


RECURSIVE Flatten(_)
Flatten(ss) == IF ss = <<>> THEN <<>> ELSE Head(ss) \o Flatten(Tail(ss))

(* hensad._build_composite_borders: the loop, then the sort and the drops *)
new_borders(hTQ, cTQ) ==
    Flatten([i \in DOMAIN cTQ |-> BordersOfPoint(hTQ, cTQ, i)])

_build_composite_borders(hTQ, cTQ) ==
    CHOOSE r \in
        {KeepFirst(by_hot, [i \in DOMAIN by_hot |-> by_hot[i].cold]) :
            by_hot \in
                {KeepLast(unique, [i \in DOMAIN unique |-> unique[i].hot]) :
                    unique \in
                        {KeepFirst(sorted, sorted) :
                            sorted \in
                                {SortByQ(borders) :
                                    borders \in {new_borders(hTQ, cTQ)}}}}} : TRUE

(* hensad._find_streams_in_interval: t1, t2 in 1/Grid degrees, shift 0 for *)
(* the hot side and dt for the cold side; .values.item() raises ValueError *)
(* unless exactly one interval matches                                     *)
StartRows(t1, summary, shift) ==
    {k \in DOMAIN summary : /\ Grid * (summary[k].TIN - shift) > t1
                            /\ t1 >= Grid * (summary[k].TOUT - shift)}

EndRows(t2, summary, shift) ==
    {k \in DOMAIN summary : /\ Grid * (summary[k].TIN - shift) >= t2
                            /\ t2 > Grid * (summary[k].TOUT - shift)}

FindRaises(t1, t2, summary, shift) ==
    \/ Cardinality(StartRows(t1, summary, shift)) # 1
    \/ Cardinality(EndRows(t2, summary, shift)) # 1

_find_streams_in_interval(t1, t2, summary, shift, isHot) ==
    LET a == CHOOSE k \in StartRows(t1, summary, shift) : TRUE
        b == CHOOSE k \in EndRows(t2, summary, shift) : TRUE
        lo == IF a > b THEN b ELSE a
        hi == IF a > b THEN a ELSE b
        idx(k) == IF isHot THEN summary[k].HOTSTRIDX ELSE summary[k].COLDSTRIDX
    IN  UNION {{idx(k)[j] : j \in DOMAIN idx(k)} : k \in lo..hi}

(* the rows i of the borders frame that bound a segment on both curves *)
SegmentStarts(borders) ==
    LET ok == [i \in 1..(Len(borders) - 1) |->
                  /\ borders[i].hot # NaN /\ borders[i].cold # NaN
                  /\ borders[i + 1].hot # NaN /\ borders[i + 1].cold # NaN]
    IN  SelectIdx(ok, 1, Len(borders) - 1)

SegmentsRaise(borders, summary, dt) ==
    \E b \in {borders} :
        \E starts \in {SegmentStarts(b)} :
            \E k \in DOMAIN starts :
                LET i == starts[k]
                IN  \/ FindRaises(b[i].hot, b[i + 1].hot, summary, 0)
                    \/ FindRaises(b[i].cold, b[i + 1].cold, summary, dt)

(* Q = mf * cp * (t2 - t1) for the streams of idx, in 1/Grid units *)
StreamEnthalpies(tbl, idx, t1, t2) ==
    [k \in DOMAIN tbl |->
        IF k \in idx THEN tbl[k].FLOW * tbl[k].CP * (t2 - t1) ELSE 0]

(* hensad.calculate_segments_data, for borders on which it does not raise *)
SegmentOf(hot, cold, dt, borders, summary, i) ==
    LET hot_1 == borders[i].hot
        hot_2 == borders[i + 1].hot
        cold_1 == borders[i].cold
        cold_2 == borders[i + 1].cold
    IN  SegmentRow(hot_1, hot_2, cold_1, cold_2, borders[i + 1].Q - borders[i].Q,
            StreamEnthalpies(hot,
                _find_streams_in_interval(hot_1, hot_2, summary, 0, TRUE),
                hot_1, hot_2),
            StreamEnthalpies(cold,
                _find_streams_in_interval(cold_1, cold_2, summary, dt, FALSE),
                cold_1, cold_2))

calculate_segments_data(hot, cold, dt, hTQ, cTQ, summary) ==
    CHOOSE r \in
        {[k \in DOMAIN SegmentStarts(borders) |->
             SegmentOf(hot, cold, dt, borders, summary, SegmentStarts(borders)[k])] :
            borders \in {_build_composite_borders(hTQ, cTQ)}} : TRUE

(***************************************************************************)
(* State of one Setup instance (gui/models/core.py)                        *)
(***************************************************************************)
VARIABLES
    hot, cold,                      \* stream tables
    dt,                             \* minimum approach temperature
    hot_film_coef, cold_film_coef,  \* film-coefficient tables
    summary, hot_interval,          \* interval table and hot-side ladder
    pinch, hot_util_req, cold_util_req,
    heat_flow,
    hot_composite_data, cold_composite_data,
    area_network,                   \* segments / network area (see SegmentsOf)
    hot_above, cold_above, hot_below, cold_below,
    above_min_exchangers, below_min_exchangers,
    design_above, design_below,     \* the two branch ledgers
    args,                           \* arguments of an engine call that Setup does not hold
    returned,                       \* what the engine function applied last returned
    called,                         \* the operation called last, with its arguments
    raised,                         \* exception that call raised to its caller, or "none"
    crashed,                        \* an exception escaped a slot: the process ended
    ops,                            \* number of operations performed so far
    rejections                      \* number of calls that raised to their caller

inputs == <<hot, cold, dt, hot_film_coef, cold_film_coef>>
derived == <<summary, hot_interval, pinch, hot_util_req, cold_util_req, heat_flow,
             hot_composite_data, cold_composite_data, area_network,
             above_min_exchangers, below_min_exchangers>>
partitions == <<hot_above, cold_above, hot_below, cold_below>>
ledgers == <<design_above, design_below>>
vars == <<hot, cold, dt, hot_film_coef, cold_film_coef,
          summary, hot_interval, pinch, hot_util_req, cold_util_req, heat_flow,
          hot_composite_data, cold_composite_data, area_network,
          hot_above, cold_above, hot_below, cold_below,
          above_min_exchangers, below_min_exchangers,
          design_above, design_below, args, returned, called, raised, crashed, ops,
          rejections>>

(* a call: the operation, the branch ('abv' / 'blw'), the stream or        *)
(* utility type ('hot' / 'cold') and the exchanger or stream id it names   *)
Call(op, des_type, typ, id) ==
    [op |-> op, des_type |-> des_type, typ |-> typ, id |-> id]

(* an attribute that no call has assigned yet (reading it is an AttributeError) *)
Unset == -999999997

(***************************************************************************)
(* calculate_segments_data and the network area of Setup._update_summary.  *)
(* The segment table and the area are functions of the streams, dt and the *)
(* film coefficients read by row position (hot_coefs.at[idx, COEF]); they  *)
(* are kept as the coefficient columns they were computed with, the stream *)
(* tables and dt being the current ones after every recomputation.         *)
(***************************************************************************)
CoefColumn(film) == [k \in DOMAIN film |-> film[k].COEF]

SegmentsOf(hot_coefs, cold_coefs) ==
    <<"computed", CoefColumn(hot_coefs), CoefColumn(cold_coefs)>>

(* area_network = np.NaN of the branch taken when the summary cannot be built *)
AreaNaN == <<"NaN", <<>>, <<>> >>

(* _area_network before the first _update_summary *)
AreaUnset == <<"unset", <<>>, <<>> >>

(***************************************************************************)
(* Setup._update_summary, as a function of the inputs it reads             *)
(***************************************************************************)
(* the values _update_summary assigns once the pinch and utilities pu are known *)
PinchResult(pu, s, h, c, d, hf, cf) ==
    CHOOSE r \in
        {[hint |-> calculate_intervals(h, c, d), summary |-> s, pinch |-> pu.pinch,
          ha |-> pt.ha, ca |-> pt.ca, hb |-> pt.hb, cb |-> pt.cb,
          hTQ |-> ce.hTQ, cTQ |-> ce.cTQ,
          crashes |-> FALSE, hur |-> pu.huq, cur |-> pu.cuq,
          area |-> SegmentsOf(hf, cf),
          hflow |-> calculate_heat_flows(s)] :
            ce \in {calculate_composite_enthalpy(h, c, d, pu.huq, pu.cuq, s)},
            pt \in {pinch_streams_tables(h, c, d, pu.pinch, hf, cf)}} : TRUE

(* the values _update_summary computes from a summary table it could build *)
SummaryResult(s, h, c, d, hf, cf) ==
    IF PinchRaises(s)
    THEN [hint |-> calculate_intervals(h, c, d), crashes |-> TRUE]
    ELSE CHOOSE r \in {PinchResult(pu, s, h, c, d, hf, cf) :
                          pu \in {calculate_pinch_utilities(s)}} : TRUE

(* What one run of _update_summary on the inputs (h, c, d, hf, cf) yields: *)
(* crashes when calculate_pinch_utilities raises, else the values assigned *)
UpdateResult(h, c, d, hf, cf, old_hint) ==
    IF SummaryRaises(h, c, d)
    THEN [hint |-> old_hint, summary |-> <<>>, pinch |-> NaN,
          ha |-> <<>>, ca |-> <<>>, hb |-> <<>>, cb |-> <<>>,
          hTQ |-> <<>>, cTQ |-> <<>>,
          crashes |-> FALSE, hur |-> 0, cur |-> 0, area |-> AreaNaN,
          hflow |-> <<>>]
    ELSE CHOOSE r \in {SummaryResult(s, h, c, d, hf, cf) :
                          s \in {calculate_summary_table(h, c, d)}} : TRUE

(* The attributes other than the partition tables and the ledgers that an  *)
(* outcome u of _update_summary assigns.  When calculate_pinch_utilities   *)
(* raises, the exception leaves the slot after _hot_interval was assigned  *)
(* and nothing else.                                                       *)
Recompute(u) ==
    IF u.crashes
    THEN /\ crashed' = TRUE
         /\ hot_interval' = u.hint
         /\ UNCHANGED <<summary, pinch, hot_util_req, cold_util_req, heat_flow,
                        hot_composite_data, cold_composite_data, area_network,
                        above_min_exchangers, below_min_exchangers>>
    ELSE /\ crashed' = FALSE
         /\ summary' = u.summary
         /\ hot_interval' = u.hint
         /\ pinch' = u.pinch
         /\ hot_util_req' = u.hur
         /\ cold_util_req' = u.cur
         /\ hot_composite_data' = u.hTQ
         /\ cold_composite_data' = u.cTQ
         /\ area_network' = u.area
         /\ heat_flow' = u.hflow
         /\ above_min_exchangers' = calculate_minimum_exchangers(u.ha, u.ca, "above")
         /\ below_min_exchangers' = calculate_minimum_exchangers(u.hb, u.cb, "below")

(* a variant that keeps the exchangers designs *)
ResetDesigns_off == UNCHANGED <<design_above, design_below>>

(* reset the exchangers designs (core.py 445-447 and 573-575) *)
ResetDesigns == design_above' = <<>> /\ design_below' = <<>>

(* The slot _update_summary (core.py 355-447), applied to its outcome u *)
_update_summary(u) ==
    /\ Recompute(u)
    /\ IF u.crashes
       THEN UNCHANGED <<partitions, ledgers>>
       ELSE /\ hot_above' = u.ha
            /\ cold_above' = u.ca
            /\ hot_below' = u.hb
            /\ cold_below' = u.cb
            /\ ResetDesigns

(***************************************************************************)
(* Init: a Setup right after construction                                  *)
(***************************************************************************)
Init ==
    /\ hot = <<>> /\ cold = <<>>
    /\ dt = NaN
    /\ hot_film_coef = <<>> /\ cold_film_coef = <<>>
    /\ summary = <<>>
    /\ hot_interval = <<NaN>>
    /\ pinch = Unset /\ hot_util_req = Unset /\ cold_util_req = Unset
    /\ heat_flow = <<>>
    /\ hot_composite_data = <<>> /\ cold_composite_data = <<>>
    /\ area_network = AreaUnset
    /\ hot_above = <<>> /\ cold_above = <<>> /\ hot_below = <<>> /\ cold_below = <<>>
    /\ above_min_exchangers = Unset /\ below_min_exchangers = Unset
    /\ design_above = <<>> /\ design_below = <<>>
    /\ args = <<>>
    /\ returned = <<>>
    /\ called = Call("__init__", "-", "-", "-")
    /\ raised = "none"
    /\ crashed = FALSE
    /\ ops = 0
    /\ rejections = 0

(***************************************************************************)
(* Inputs of the operations                                                *)
(***************************************************************************)
DtValues == {10, 20}
TempValues == {100, 150}
FlowValues == {1, 2}
CpValues == {1}
IdValues == {"S3"}
CoefValues == {2000}
StreamTypes == {"hot", "cold"}

StreamName(n) == "S" \o ToString(n)

(* value.loc[:, ID] = self.hot.loc[:, ID] of the film-coefficient setters: *)
(* the ids of the stream table are copied by row label; a film row whose   *)
(* label is not in the stream table gets a NaN id.                         *)
SyncIds(film, streams) ==
    [k \in DOMAIN film |->
        [ID |-> IF k \in DOMAIN streams THEN streams[k].ID ELSE "NaN",
         COEF |-> film[k].COEF]]

Running == ~crashed
CanAct == Running /\ ops < MaxOps /\ rejections < MaxRejections

(***************************************************************************)
(* dt setter (core.py 83-88): assigns and emits dt_changed                 *)
(***************************************************************************)
SetDt(value) ==
    /\ CanAct
    /\ dt' = value
    /\ \E u \in {UpdateResult(hot, cold, value, hot_film_coef, cold_film_coef,
                              hot_interval)} : _update_summary(u)
    /\ called' = Call("dt", "-", "-", "-")
    /\ UNCHANGED <<args, returned>>
    /\ raised' = "none"
    /\ ops' = ops + 1
    /\ UNCHANGED rejections
    /\ UNCHANGED <<hot, cold, hot_film_coef, cold_film_coef>>

(***************************************************************************)
(* Setup.add_stream (core.py 449-482)                                      *)
(***************************************************************************)
NewStream(tbl) ==
    Stream(StreamName(Len(tbl) + 1), 0, 0, 0, 0)

AddStream(typ) ==
    /\ CanAct
    /\ Len(IF typ = "hot" THEN hot ELSE cold) < MaxStreams
    /\ LET h == IF typ = "hot" THEN Append(hot, NewStream(hot)) ELSE hot
           c == IF typ = "cold" THEN Append(cold, NewStream(cold)) ELSE cold
           film_row(tbl) == Film(StreamName(Len(tbl) + 1), NaN)
       IN  /\ hot' = h
           /\ cold' = c
           \* the stream setter emits hot_changed / cold_changed first ...
           /\ \E u \in {UpdateResult(h, c, dt, hot_film_coef, cold_film_coef,
                                     hot_interval)} :
              /\ _update_summary(u)
              \* ... and the film row is appended after the slot returned
              /\ IF u.crashes
                 THEN UNCHANGED <<hot_film_coef, cold_film_coef>>
                 ELSE /\ hot_film_coef' =
                           IF typ = "hot"
                           THEN SyncIds(Append(hot_film_coef, film_row(hot)), h)
                           ELSE hot_film_coef
                      /\ cold_film_coef' =
                           IF typ = "cold"
                           THEN SyncIds(Append(cold_film_coef, film_row(cold)), c)
                           ELSE cold_film_coef
    /\ called' = Call("add_stream", "-", typ, "-")
    /\ UNCHANGED <<args, returned>>
    /\ raised' = "none"
    /\ ops' = ops + 1
    /\ UNCHANGED rejections
    /\ UNCHANGED dt

(***************************************************************************)
(* Setup.delete_stream (core.py 484-506)                                   *)
(***************************************************************************)
DeleteStream(typ, index) ==
    /\ CanAct
    /\ index \in DOMAIN (IF typ = "hot" THEN hot ELSE cold)
    /\ LET h == IF typ = "hot" THEN RemoveAt(hot, index) ELSE hot
           c == IF typ = "cold" THEN RemoveAt(cold, index) ELSE cold
       IN  /\ hot' = h
           /\ cold' = c
           /\ \E u \in {UpdateResult(h, c, dt, hot_film_coef, cold_film_coef,
                                     hot_interval)} :
              /\ _update_summary(u)
              /\ IF u.crashes
                 THEN UNCHANGED <<hot_film_coef, cold_film_coef>>
                 ELSE /\ hot_film_coef' =
                           IF typ = "hot"
                           THEN SyncIds(RemoveAt(hot_film_coef, index), h)
                           ELSE hot_film_coef
                      /\ cold_film_coef' =
                           IF typ = "cold"
                           THEN SyncIds(RemoveAt(cold_film_coef, index), c)
                           ELSE cold_film_coef
    /\ called' = Call("delete_stream", "-", typ, "-")
    /\ UNCHANGED <<args, returned>>
    /\ raised' = "none"
    /\ ops' = ops + 1
    /\ UNCHANGED rejections
    /\ UNCHANGED dt

(***************************************************************************)
(* StreamInputTableModel.setData (input_streams.py 184-208): a cell of a   *)
(* stream table is written in place, then hot_changed / cold_changed       *)
(***************************************************************************)
SetCell(tbl, row, col, value) ==
    [tbl EXCEPT ![row] =
        CASE col = "ID" -> [@ EXCEPT !.ID = value]
          [] col = "FLOW" -> [@ EXCEPT !.FLOW = value]
          [] col = "CP" -> [@ EXCEPT !.CP = value]
          [] col = "TIN" -> [@ EXCEPT !.TIN = value]
          [] col = "TOUT" -> [@ EXCEPT !.TOUT = value]]

CellValues(col) ==
    CASE col = "ID" -> IdValues
      [] col = "FLOW" -> FlowValues
      [] col = "CP" -> CpValues
      [] col = "TIN" -> TempValues
      [] col = "TOUT" -> TempValues

StreamColumns == {"ID", "FLOW", "CP", "TIN", "TOUT"}

EditStream(typ, row, col, value) ==
    /\ CanAct
    /\ row \in DOMAIN (IF typ = "hot" THEN hot ELSE cold)
    /\ LET h == IF typ = "hot" THEN SetCell(hot, row, col, value) ELSE hot
           c == IF typ = "cold" THEN SetCell(cold, row, col, value) ELSE cold
       IN  /\ hot' = h
           /\ cold' = c
           /\ \E u \in {UpdateResult(h, c, dt, hot_film_coef, cold_film_coef,
                                     hot_interval)} : _update_summary(u)
    /\ called' = Call("stream_edit", "-", typ, "-")
    /\ UNCHANGED <<args, returned>>
    /\ raised' = "none"
    /\ ops' = ops + 1
    /\ UNCHANGED rejections
    /\ UNCHANGED <<dt, hot_film_coef, cold_film_coef>>

(***************************************************************************)
(* StreamFilmCoeffTableModel.setData (input_streams.py 281-299): a         *)
(* coefficient is written in place, then hot_coeffs_changed /              *)
(* cold_coeffs_changed, to which Setup.__init__ connects no slot           *)
(***************************************************************************)
EditFilm(typ, row, value) ==
    /\ CanAct
    /\ row \in DOMAIN (IF typ = "hot" THEN hot_film_coef ELSE cold_film_coef)
    /\ hot_film_coef' = IF typ = "hot"
                        THEN [hot_film_coef EXCEPT ![row].COEF = value]
                        ELSE hot_film_coef
    /\ cold_film_coef' = IF typ = "cold"
                         THEN [cold_film_coef EXCEPT ![row].COEF = value]
                         ELSE cold_film_coef
    /\ called' = Call("film_edit", "-", typ, "-")
    /\ UNCHANGED <<args, returned>>
    /\ raised' = "none"
    /\ ops' = ops + 1
    /\ UNCHANGED rejections
    /\ UNCHANGED <<hot, cold, dt, derived, partitions, ledgers, crashed>>

(***************************************************************************)
(* hot_film_coef / cold_film_coef setter (core.py 296-338) called with a   *)
(* table that gives every stream the coefficient value: the ids are        *)
(* copied from the stream table, the table is assigned and                 *)
(* hot_coeffs_changed / cold_coeffs_changed is emitted                     *)
(***************************************************************************)
SetFilmCoef(typ, value) ==
    /\ CanAct
    /\ (IF typ = "hot" THEN hot_film_coef ELSE cold_film_coef) # <<>>
    /\ hot_film_coef' =
          IF typ = "hot"
          THEN SyncIds([k \in DOMAIN hot_film_coef |-> [ID |-> "NaN", COEF |-> value]], hot)
          ELSE hot_film_coef
    /\ cold_film_coef' =
          IF typ = "cold"
          THEN SyncIds([k \in DOMAIN cold_film_coef |-> [ID |-> "NaN", COEF |-> value]], cold)
          ELSE cold_film_coef
    /\ called' = Call("film_setter", "-", typ, "-")
    /\ UNCHANGED <<args, returned>>
    /\ raised' = "none"
    /\ ops' = ops + 1
    /\ UNCHANGED rejections
    /\ UNCHANGED <<hot, cold, dt, derived, partitions, ledgers, crashed>>

(***************************************************************************)
(* hensad.calculate_log_mean_diff (counter-current).  Temperatures are     *)
(* whole degrees; the log mean is kept in hundredths of a degree, rounded  *)
(* down.  LnTable[n] is np.log(n) * 10^6, rounded, for n = 1 .. 400.       *)
(***************************************************************************)
LnTable == <<
    0, 693147, 1098612, 1386294, 1609438, 1791759, 1945910, 2079442,
    2197225, 2302585, 2397895, 2484907, 2564949, 2639057, 2708050, 2772589,
    2833213, 2890372, 2944439, 2995732, 3044522, 3091042, 3135494, 3178054,
    3218876, 3258097, 3295837, 3332205, 3367296, 3401197, 3433987, 3465736,
    3496508, 3526361, 3555348, 3583519, 3610918, 3637586, 3663562, 3688879,
    3713572, 3737670, 3761200, 3784190, 3806662, 3828641, 3850148, 3871201,
    3891820, 3912023, 3931826, 3951244, 3970292, 3988984, 4007333, 4025352,
    4043051, 4060443, 4077537, 4094345, 4110874, 4127134, 4143135, 4158883,
    4174387, 4189655, 4204693, 4219508, 4234107, 4248495, 4262680, 4276666,
    4290459, 4304065, 4317488, 4330733, 4343805, 4356709, 4369448, 4382027,
    4394449, 4406719, 4418841, 4430817, 4442651, 4454347, 4465908, 4477337,
    4488636, 4499810, 4510860, 4521789, 4532599, 4543295, 4553877, 4564348,
    4574711, 4584967, 4595120, 4605170, 4615121, 4624973, 4634729, 4644391,
    4653960, 4663439, 4672829, 4682131, 4691348, 4700480, 4709530, 4718499,
    4727388, 4736198, 4744932, 4753590, 4762174, 4770685, 4779123, 4787492,
    4795791, 4804021, 4812184, 4820282, 4828314, 4836282, 4844187, 4852030,
    4859812, 4867534, 4875197, 4882802, 4890349, 4897840, 4905275, 4912655,
    4919981, 4927254, 4934474, 4941642, 4948760, 4955827, 4962845, 4969813,
    4976734, 4983607, 4990433, 4997212, 5003946, 5010635, 5017280, 5023881,
    5030438, 5036953, 5043425, 5049856, 5056246, 5062595, 5068904, 5075174,
    5081404, 5087596, 5093750, 5099866, 5105945, 5111988, 5117994, 5123964,
    5129899, 5135798, 5141664, 5147494, 5153292, 5159055, 5164786, 5170484,
    5176150, 5181784, 5187386, 5192957, 5198497, 5204007, 5209486, 5214936,
    5220356, 5225747, 5231109, 5236442, 5241747, 5247024, 5252273, 5257495,
    5262690, 5267858, 5273000, 5278115, 5283204, 5288267, 5293305, 5298317,
    5303305, 5308268, 5313206, 5318120, 5323010, 5327876, 5332719, 5337538,
    5342334, 5347108, 5351858, 5356586, 5361292, 5365976, 5370638, 5375278,
    5379897, 5384495, 5389072, 5393628, 5398163, 5402677, 5407172, 5411646,
    5416100, 5420535, 5424950, 5429346, 5433722, 5438079, 5442418, 5446737,
    5451038, 5455321, 5459586, 5463832, 5468060, 5472271, 5476464, 5480639,
    5484797, 5488938, 5493061, 5497168, 5501258, 5505332, 5509388, 5513429,
    5517453, 5521461, 5525453, 5529429, 5533389, 5537334, 5541264, 5545177,
    5549076, 5552960, 5556828, 5560682, 5564520, 5568345, 5572154, 5575949,
    5579730, 5583496, 5587249, 5590987, 5594711, 5598422, 5602119, 5605802,
    5609472, 5613128, 5616771, 5620401, 5624018, 5627621, 5631212, 5634790,
    5638355, 5641907, 5645447, 5648974, 5652489, 5655992, 5659482, 5662960,
    5666427, 5669881, 5673323, 5676754, 5680173, 5683580, 5686975, 5690359,
    5693732, 5697093, 5700444, 5703782, 5707110, 5710427, 5713733, 5717028,
    5720312, 5723585, 5726848, 5730100, 5733341, 5736572, 5739793, 5743003,
    5746203, 5749393, 5752573, 5755742, 5758902, 5762051, 5765191, 5768321,
    5771441, 5774552, 5777652, 5780744, 5783825, 5786897, 5789960, 5793014,
    5796058, 5799093, 5802118, 5805135, 5808142, 5811141, 5814131, 5817111,
    5820083, 5823046, 5826000, 5828946, 5831882, 5834811, 5837730, 5840642,
    5843544, 5846439, 5849325, 5852202, 5855072, 5857933, 5860786, 5863631,
    5866468, 5869297, 5872118, 5874931, 5877736, 5880533, 5883322, 5886104,
    5888878, 5891644, 5894403, 5897154, 5899897, 5902633, 5905362, 5908083,
    5910797, 5913503, 5916202, 5918894, 5921578, 5924256, 5926926, 5929589,
    5932245, 5934894, 5937536, 5940171, 5942799, 5945421, 5948035, 5950643,
    5953243, 5955837, 5958425, 5961005, 5963579, 5966147, 5968708, 5971262,
    5973810, 5976351, 5978886, 5981414, 5983936, 5986452, 5988961, 5991465 >>

(* (a - b) / np.log(a / b) in hundredths, for a > b > 0 *)
LogMeanCenti(a, b) ==
    LET num == (a - b) * 1000000
        ld == LnTable[a] - LnTable[b]
    IN  (num \div ld) * 100 + ((num % ld) * 100) \div ld

(* the float division DTA / DTB by a Python float 0.0 raises *)
ZeroDivision == -999999996

(* np: the operands are numpy floats (read with .max() / .min() from the   *)
(* ledger), whose division by zero yields inf or nan instead of raising    *)
calculate_log_mean_diff(hot_in, hot_out, cold_in, cold_out, np) ==
    LET DTA == hot_in - cold_out
        DTB == hot_out - cold_in
    IN  IF DTA = DTB THEN 100 * DTA
        ELSE IF DTB = 0
             THEN (IF ~np THEN ZeroDivision ELSE IF DTA > 0 THEN 0 ELSE NaN)
        ELSE IF DTA = 0 THEN 0
        ELSE IF (DTA > 0) # (DTB > 0) THEN NaN
        ELSE IF DTA > 0
             THEN (IF DTA > DTB THEN LogMeanCenti(DTA, DTB)
                   ELSE LogMeanCenti(DTB, DTA))
        ELSE 0 - (IF DTA < DTB THEN LogMeanCenti(0 - DTA, 0 - DTB)
                  ELSE LogMeanCenti(0 - DTB, 0 - DTA))

(***************************************************************************)
(* Shared checks of add_exchanger / add_utility_exchanger                  *)
(***************************************************************************)
Branch(des_type) ==
    IF des_type = "abv"
    THEN [hot_df |-> hot_above, cold_df |-> cold_above,
          design |-> design_above, allowed_ex |-> above_min_exchangers]
    ELSE [hot_df |-> hot_below, cold_df |-> cold_below,
          design |-> design_below, allowed_ex |-> below_min_exchangers]

(* a variant in which a rejected call leaves an empty ledger *)
Rejected_cleared(kind, design) == [raised |-> kind, design |-> <<>>]

(* a raise statement before the ledger is assigned: the exception goes to  *)
(* the caller and the ledger of the branch stays as it was                 *)
Rejected(kind, design) == [raised |-> kind, design |-> design]

(* a variant without the check of the ledger size *)
LedgerFull_off(design, allowed_ex) == FALSE

(* len(design) >= allowed_ex *)
LedgerFull(design, allowed_ex) == Len(design) >= allowed_ex

(* the film tables are empty or hold a NaN *)
FilmUnavailable(hf, cf) ==
    \/ hf = <<>> \/ cf = <<>>
    \/ \E k \in DOMAIN hf : hf[k].COEF = NaN \/ hf[k].ID = "NaN"
    \/ \E k \in DOMAIN cf : cf[k].COEF = NaN \/ cf[k].ID = "NaN"

(* a variant without the check of the exchanger id *)
IdTaken_off(design, ex_id) == FALSE

(* ex_id in design[ID].values *)
IdTaken(design, ex_id) == \E k \in DOMAIN design : design[k].ID = ex_id

RowsOf(df, stream_id) ==
    SelectIdx([k \in DOMAIN df |-> df[k].ID = stream_id], 1, Len(df))

SetMin(S) == CHOOSE m \in S : \A x \in S : m <= x

HotInOf(design, id) == {design[k].HOT_IN : k \in {j \in DOMAIN design : design[j].SOURCE = id}}
HotOutOf(design, id) == {design[k].HOT_OUT : k \in {j \in DOMAIN design : design[j].SOURCE = id}}
ColdInOf(design, id) == {design[k].COLD_IN : k \in {j \in DOMAIN design : design[j].DEST = id}}
ColdOutOf(design, id) == {design[k].COLD_OUT : k \in {j \in DOMAIN design : design[j].DEST = id}}

(***************************************************************************)
(* Setup.add_exchanger (core.py 577-796).  cost_ok: the pressure and the   *)
(* computed area lie inside the ranges of the cost data                    *)
(* (hensad.cost._get_exchanger_data); both follow from the caller's        *)
(* pressure and correction factor.  The result is the exception raised     *)
(* ("none" when the record was stored) and the ledger of the branch after  *)
(* the call.                                                               *)
(***************************************************************************)
(* temperatures at which the next process exchanger starts (lines 668-710) *)
ProcessTemps(des_type, hs, cs, design, stream_source, stream_dest) ==
    IF des_type = "abv"
    THEN [h_tin |-> hs.TIN,
          h_tout |-> IF HotInOf(design, stream_source) # {}
                     THEN SetMax(HotInOf(design, stream_source)) ELSE hs.TOUT,
          c_tin |-> IF ColdOutOf(design, stream_dest) # {}
                    THEN SetMax(ColdOutOf(design, stream_dest)) ELSE cs.TIN,
          c_tout |-> cs.TOUT]
    ELSE [h_tin |-> IF HotOutOf(design, stream_source) # {}
                    THEN SetMax(HotOutOf(design, stream_source)) ELSE hs.TIN,
          h_tout |-> hs.TOUT,
          c_tin |-> cs.TIN,
          c_tout |-> IF ColdInOf(design, stream_dest) # {}
                     THEN SetMax(ColdInOf(design, stream_dest)) ELSE cs.TOUT]

(* duty > abs(mf * cp * (t1 - t2)) *)
DutyInfeasible(duty, mf, cp, t1, t2) == duty > Abs(mf * cp * (t1 - t2))

(* dtln < self.dt, a comparison that is False for a NaN log mean *)
ViolatesApproach(dtln, d) == dtln # NaN /\ d # NaN /\ dtln < 100 * d

add_exchanger(des_type, ex_id, duty, stream_source, stream_dest, cost_ok) ==
    LET b == Branch(des_type)
        Reject(kind) == Rejected(kind, b.design)
        hr == RowsOf(b.hot_df, stream_source)
        cr == RowsOf(b.cold_df, stream_dest)
    IN  IF b.allowed_ex = Unset THEN Reject("AttributeError")
        ELSE IF LedgerFull(b.design, b.allowed_ex) THEN Reject("ValueError")
        ELSE IF FilmUnavailable(hot_film_coef, cold_film_coef) THEN Reject("ValueError")
        ELSE IF IdTaken(b.design, ex_id) THEN Reject("ValueError")
        ELSE IF hr = <<>> \/ cr = <<>> THEN Reject("KeyError")
        \* Series.item() on more than one row
        ELSE IF Len(hr) > 1 \/ Len(cr) > 1 THEN Reject("ValueError")
        ELSE
        LET hs == b.hot_df[hr[1]]
            cs == b.cold_df[cr[1]]
            t == ProcessTemps(des_type, hs, cs, b.design, stream_source, stream_dest)
            np == HotInOf(b.design, stream_source) # {}
                  \/ ColdInOf(b.design, stream_dest) # {}
        IN  IF hs.COEF = NoColumn \/ cs.COEF = NoColumn THEN Reject("KeyError")
            ELSE IF DutyInfeasible(duty, hs.FLOW, hs.CP, t.h_tin, t.h_tout)
                 THEN Reject("ValueError")
            ELSE IF DutyInfeasible(duty, cs.FLOW, cs.CP, t.c_tout, t.c_tin)
                 THEN Reject("ValueError")
            ELSE
            LET h_tin == IF des_type = "abv"
                         THEN t.h_tout + duty \div (hs.FLOW * hs.CP) ELSE t.h_tin
                h_tout == IF des_type = "abv"
                          THEN t.h_tout ELSE t.h_tin - duty \div (hs.FLOW * hs.CP)
                c_tout == IF des_type = "abv"
                          THEN t.c_tin + duty \div (cs.FLOW * cs.CP) ELSE t.c_tout
                c_tin == IF des_type = "abv"
                         THEN t.c_tin ELSE t.c_tout - duty \div (cs.FLOW * cs.CP)
                dtln == calculate_log_mean_diff(h_tin, h_tout, c_tin, c_tout, np)
            IN  IF dtln = ZeroDivision THEN Reject("ZeroDivisionError")
                ELSE IF ViolatesApproach(dtln, dt) THEN Reject("ValueError")
                ELSE IF ~cost_ok THEN Reject("ValueError")
                \* calculate_number_of_shells divides by th_in - tc_in
                ELSE IF dtln = NaN /\ h_tin = c_tin /\ ~np
                     THEN Reject("ZeroDivisionError")
                \* the design setter refuses a frame that holds a NaN
                ELSE IF dtln = NaN THEN Reject("ValueError")
                ELSE [raised |-> "none",
                      design |-> Append(b.design,
                                    ExchangerRow(ex_id, duty, stream_source, stream_dest,
                                                 h_tin, h_tout, c_tin, c_tout, dtln))]

(***************************************************************************)
(* Setup.add_utility_exchanger (core.py 798-958)                           *)
(***************************************************************************)
(* temperature at which the next utility exchanger of the stream starts    *)
UtilityTin(utility_type, s, design, stream_id) ==
    IF utility_type = "hot"
    THEN (IF ColdOutOf(design, stream_id) # {}
          THEN SetMax(ColdOutOf(design, stream_id)) ELSE s.TIN)
    ELSE (IF HotOutOf(design, stream_id) # {}
          THEN SetMin(HotOutOf(design, stream_id)) ELSE s.TIN)

(* the area duty * 1e3 / (u * dtln * f) of a log mean that is zero or      *)
(* negative is infinite or negative: outside every area range              *)
AreaOutOfRange(dtln) == dtln # NaN /\ dtln <= 0

add_utility_exchanger(des_type, ex_id, duty, utility_type, stream_id, ut_in, ut_out, cost_ok) ==
    LET b == Branch(des_type)
        Reject(kind) == Rejected(kind, b.design)
        df == IF utility_type = "hot" THEN b.cold_df ELSE b.hot_df
        rows == RowsOf(df, stream_id)
    IN  IF b.allowed_ex = Unset THEN Reject("AttributeError")
        ELSE IF LedgerFull(b.design, b.allowed_ex) THEN Reject("ValueError")
        ELSE IF FilmUnavailable(hot_film_coef, cold_film_coef) THEN Reject("ValueError")
        ELSE IF IdTaken(b.design, ex_id) THEN Reject("ValueError")
        ELSE IF rows = <<>> THEN Reject("KeyError")
        ELSE IF df[rows[1]].COEF = NoColumn THEN Reject("KeyError")
        ELSE IF Len(rows) > 1 THEN Reject("ValueError")
        ELSE
        LET s == df[rows[1]]
            tin == UtilityTin(utility_type, s, b.design, stream_id)
            np == IF utility_type = "hot"
                  THEN ColdOutOf(b.design, stream_id) # {}
                  ELSE HotOutOf(b.design, stream_id) # {}
        IN  IF DutyInfeasible(duty, s.FLOW, s.CP, tin, s.TOUT) THEN Reject("ValueError")
            ELSE
            LET tout == IF utility_type = "hot"
                        THEN tin + duty \div (s.FLOW * s.CP)
                        ELSE tin - duty \div (s.FLOW * s.CP)
                h_tin == IF utility_type = "hot" THEN ut_in ELSE tin
                h_tout == IF utility_type = "hot" THEN ut_out ELSE tout
                c_tin == IF utility_type = "hot" THEN tin ELSE ut_in
                c_tout == IF utility_type = "hot" THEN tout ELSE ut_out
                dtln == calculate_log_mean_diff(h_tin, h_tout, c_tin, c_tout, np)
            IN  IF dtln = ZeroDivision THEN Reject("ZeroDivisionError")
                ELSE IF AreaOutOfRange(dtln) \/ ~cost_ok THEN Reject("ValueError")
                \* the design setter refuses a frame that holds a NaN
                ELSE IF dtln = NaN THEN Reject("ValueError")
                ELSE [raised |-> "none",
                      design |-> Append(b.design,
                                    ExchangerRow(ex_id, duty,
                                        IF utility_type = "hot" THEN "Hot utility" ELSE stream_id,
                                        IF utility_type = "hot" THEN stream_id ELSE "Cold utility",
                                        h_tin, h_tout, c_tin, c_tout, dtln))]

(***************************************************************************)
(* Setup.delete_exchanger (core.py 960-976)                                *)
(***************************************************************************)
(* a variant that drops every record *)
DropId_all(design, ex_id) == <<>>

(* design.set_index(ID).drop(labels=ex_id).reset_index() *)
DropId(design, ex_id) ==
    LET keep == SelectIdx([k \in DOMAIN design |-> design[k].ID # ex_id], 1, Len(design))
    IN  [k \in DOMAIN keep |-> design[keep[k]]]

delete_exchanger(ex_id, des_type) ==
    LET design == Branch(des_type).design
    IN  IF ex_id \notin {design[k].ID : k \in DOMAIN design}
        THEN [raised |-> "KeyError", design |-> design]
        ELSE [raised |-> "none", design |-> DropId(design, ex_id)]

(***************************************************************************)
(* Setup.split_stream (core.py 508-575)                                    *)
(***************************************************************************)
PartitionOf(des_type, stream_type) ==
    IF des_type = "abv"
    THEN (IF stream_type = "hot" THEN hot_above ELSE cold_above)
    ELSE (IF stream_type = "hot" THEN hot_below ELSE cold_below)

(* chr(ord('A') + i) for the 0-based i = n - 1 *)
SplitLetter(n) == CASE n = 1 -> "A" [] n = 2 -> "B" [] n = 3 -> "C" [] OTHER -> "D"

(* a variant without the check of the flow sum *)
FlowMismatch_off(flowrates, flow) == FALSE

(* sum_flow != flow *)
FlowMismatch(flowrates, flow) == SumSeq(flowrates) # flow

SubStreams(stream, flowrates) ==
    [i \in DOMAIN flowrates |->
        [stream EXCEPT !.ID = stream.ID \o "_" \o SplitLetter(i),
                       !.FLOW = flowrates[i]]]

split_stream(des_type, stream_type, stream_id, flowrates) ==
    LET streams_df == PartitionOf(des_type, stream_type)
        rows == RowsOf(streams_df, stream_id)
        Reject(kind) == [raised |-> kind, table |-> streams_df]
    IN  IF rows = <<>> THEN Reject("KeyError")
        \* a duplicated id selects a frame; its truth value is ambiguous
        ELSE IF Len(rows) > 1 THEN Reject("ValueError")
        ELSE IF FlowMismatch(flowrates, streams_df[rows[1]].FLOW) THEN Reject("ValueError")
        \* [STFCFM.columns()] on a table without coefficient column
        ELSE IF streams_df[rows[1]].COEF = NoColumn THEN Reject("KeyError")
        ELSE [raised |-> "none",
              table |-> RemoveAt(streams_df, rows[1])
                        \o SubStreams(streams_df[rows[1]], flowrates)]

(***************************************************************************)
(* Inputs of the design operations                                         *)
(***************************************************************************)
DesTypes == {"abv", "blw"}
ExIds == <<"E1", "E2", "E3">>
DutyValues == {20}
UtilityTypes == {"hot", "cold"}
(* (ut_in, ut_out) of a utility: steam, or one of two cooling waters *)
UtilityTemps(utility_type) ==
    IF utility_type = "hot" THEN {<<200, 190>>} ELSE {<<30, 40>>, <<45, 55>>}
SplitFlows == {<<1, 1>>, <<1, 2>>}

IdsOf(tbl) == {tbl[k].ID : k \in DOMAIN tbl}

(* Exchanger labels are interchangeable: a caller names either a label     *)
(* the branch ledger holds or the first label it does not hold.            *)
ExIdChoices(design) ==
    LET free == {i \in DOMAIN ExIds : ExIds[i] \notin {design[k].ID : k \in DOMAIN design}}
    IN  {design[k].ID : k \in DOMAIN design}
        \cup (IF free = {} THEN {} ELSE {ExIds[SetMin(free)]})

(* stream ids a caller can name: those of the branch tables and of the     *)
(* stream tables                                                           *)
HotIdChoices(des_type) == IdsOf(Branch(des_type).hot_df) \cup IdsOf(hot)
ColdIdChoices(des_type) == IdsOf(Branch(des_type).cold_df) \cup IdsOf(cold)

StoreDesign(des_type, design) ==
    /\ design_above' = IF des_type = "abv" THEN design ELSE design_above
    /\ design_below' = IF des_type = "blw" THEN design ELSE design_below

AddExchanger(des_type, ex_id, duty, stream_source, stream_dest, cost_ok) ==
    /\ CanAct
    \* the cost ranges are reached only by a call that passes the other checks
    /\ cost_ok \/ add_exchanger(des_type, ex_id, duty, stream_source, stream_dest,
                                TRUE).raised = "none"
    /\ \E r \in {add_exchanger(des_type, ex_id, duty, stream_source, stream_dest,
                                cost_ok)} :
           /\ StoreDesign(des_type, r.design)
           /\ called' = Call("add_exchanger", des_type, "-", ex_id)
           /\ UNCHANGED <<args, returned>>
           /\ raised' = r.raised
           /\ rejections' = rejections + (IF r.raised = "none" THEN 0 ELSE 1)
    /\ ops' = ops + 1
    /\ UNCHANGED <<inputs, derived, partitions, crashed>>

AddUtilityExchanger(des_type, ex_id, duty, utility_type, stream_id, ut, cost_ok) ==
    /\ CanAct
    \* the cost ranges are reached only by a call that passes the other checks
    /\ cost_ok \/ add_utility_exchanger(des_type, ex_id, duty, utility_type, stream_id,
                                        ut[1], ut[2], TRUE).raised = "none"
    /\ \E r \in {add_utility_exchanger(des_type, ex_id, duty, utility_type, stream_id,
                                        ut[1], ut[2], cost_ok)} :
           /\ StoreDesign(des_type, r.design)
           /\ called' = Call("add_utility_exchanger", des_type, utility_type, ex_id)
           /\ UNCHANGED <<args, returned>>
           /\ raised' = r.raised
           /\ rejections' = rejections + (IF r.raised = "none" THEN 0 ELSE 1)
    /\ ops' = ops + 1
    /\ UNCHANGED <<inputs, derived, partitions, crashed>>

DeleteExchanger(ex_id, des_type) ==
    /\ CanAct
    /\ \E r \in {delete_exchanger(ex_id, des_type)} :
           /\ StoreDesign(des_type, r.design)
           /\ called' = Call("delete_exchanger", des_type, "-", ex_id)
           /\ UNCHANGED <<args, returned>>
           /\ raised' = r.raised
           /\ rejections' = rejections + (IF r.raised = "none" THEN 0 ELSE 1)
    /\ ops' = ops + 1
    /\ UNCHANGED <<inputs, derived, partitions, crashed>>

SplitStream(des_type, stream_type, stream_id, flowrates) ==
    /\ CanAct
    /\ \E r \in {split_stream(des_type, stream_type, stream_id, flowrates)} :
           LET put(d, s, old) == IF des_type = d /\ stream_type = s THEN r.table ELSE old
           IN
           /\ raised' = r.raised
           /\ rejections' = rejections + (IF r.raised = "none" THEN 0 ELSE 1)
           /\ hot_above' = put("abv", "hot", hot_above)
           /\ cold_above' = put("abv", "cold", cold_above)
           /\ hot_below' = put("blw", "hot", hot_below)
           /\ cold_below' = put("blw", "cold", cold_below)
           /\ IF r.raised = "none"
              THEN ResetDesigns
              ELSE UNCHANGED ledgers
    /\ called' = Call("split_stream", des_type, stream_type, stream_id)
    /\ UNCHANGED <<args, returned>>
    /\ ops' = ops + 1
    /\ UNCHANGED <<inputs, derived, crashed>>

(***************************************************************************)
(* Setup.load (core.py 978-1078) of a file written by Setup.save           *)
(* (core.py 1080-1103).  The documents are saves of sessions in which no   *)
(* exchanger was placed and no stream was split.                           *)
(***************************************************************************)
SavedPartitions(h, c, d, hf, cf) ==
    LET u == UpdateResult(h, c, d, hf, cf, <<NaN>>)
    IN  [ha |-> u.ha, ca |-> u.ca, hb |-> u.hb, cb |-> u.cb]

Document(d, h, c, hf, cf) ==
    [hot |-> h, cold |-> c, dt |-> d, hot_film |-> hf, cold_film |-> cf,
     design |-> [above |-> <<>>, below |-> <<>>],
     tables |-> SavedPartitions(h, c, d, hf, cf)]

DocumentNames == {"two hot streams", "one hot stream"}

(* the file saved under a name *)
SavedDocument(name) ==
    IF name = "two hot streams"
    THEN Document(10,
                  <<Stream("S1", 1, 1, 100, 50), Stream("S2", 1, 1, 150, 50)>>,
                  <<Stream("S1", 1, 1, 50, 100)>>,
                  <<Film("S1", 1000), Film("S2", 1000)>>, <<Film("S1", 1000)>>)
    ELSE Document(10,
                  <<Stream("S1", 2, 1, 100, 50)>>,
                  <<Stream("S1", 2, 1, 50, 100)>>,
                  <<Film("S1", 1000)>>, <<Film("S1", 1500)>>)

Load(doc) ==
    /\ CanAct
    /\ hot' = doc.hot
    /\ cold' = doc.cold
    /\ hot_film_coef' = SyncIds(doc.hot_film, doc.hot)
    /\ cold_film_coef' = SyncIds(doc.cold_film, doc.cold)
    /\ dt' = doc.dt
    \* the dt setter emits dt_changed ...
    /\ \E u \in {UpdateResult(doc.hot, doc.cold, doc.dt,
                              SyncIds(doc.hot_film, doc.hot),
                              SyncIds(doc.cold_film, doc.cold), hot_interval)} :
          /\ Recompute(u)
          \* ... and the tables and ledgers of the file replace the recomputed ones
          /\ IF u.crashes
             THEN UNCHANGED <<partitions, ledgers>>
             ELSE /\ hot_above' = doc.tables.ha
                  /\ cold_above' = doc.tables.ca
                  /\ hot_below' = doc.tables.hb
                  /\ cold_below' = doc.tables.cb
                  /\ design_above' = doc.design.above
                  /\ design_below' = doc.design.below
    /\ called' = Call("load", "-", "-", "-")
    /\ UNCHANGED <<args, returned>>
    /\ raised' = "none"
    /\ UNCHANGED <<ops, rejections>>

(***************************************************************************)
(* Setup.save (core.py 1080-1103) and the frames Setup.load builds from    *)
(* the file (core.py 979-1058)                                             *)
(***************************************************************************)
(* DataFrame.to_dict(): for every column, the values by index label; the   *)
(* index of every frame that Setup holds is 0 .. n-1 in row order          *)
to_dict(frame) ==
    IF frame = <<>>
    THEN <<>>
    ELSE [col \in DOMAIN frame[1] |-> [i \in DOMAIN frame |-> frame[i][col]]]

(* pd.DataFrame(hsd[...]), astype and index.astype(int): one row per index *)
(* label, in the order of the labels                                       *)
DataFrame(data) ==
    IF DOMAIN data = {}
    THEN <<>>
    ELSE [i \in DOMAIN data[CHOOSE col \in DOMAIN data : TRUE] |->
             [col \in DOMAIN data |-> data[col][i]]]

(* the dump that save writes *)
save ==
    [hot |-> to_dict(hot), cold |-> to_dict(cold), dt |-> dt,
     hot_film |-> to_dict(hot_film_coef), cold_film |-> to_dict(cold_film_coef),
     design |-> [above |-> [hot |-> to_dict(hot_above), cold |-> to_dict(cold_above),
                            exchangers |-> to_dict(design_above)],
                 below |-> [hot |-> to_dict(hot_below), cold |-> to_dict(cold_below),
                            exchangers |-> to_dict(design_below)]]]

(* the frames load builds from a dump *)
LoadedDocument(hsd) ==
    [hot |-> DataFrame(hsd.hot), cold |-> DataFrame(hsd.cold), dt |-> hsd.dt,
     hot_film |-> DataFrame(hsd.hot_film), cold_film |-> DataFrame(hsd.cold_film),
     design |-> [above |-> DataFrame(hsd.design.above.exchangers),
                 below |-> DataFrame(hsd.design.below.exchangers)],
     tables |-> [ha |-> DataFrame(hsd.design.above.hot),
                 ca |-> DataFrame(hsd.design.above.cold),
                 hb |-> DataFrame(hsd.design.below.hot),
                 cb |-> DataFrame(hsd.design.below.cold)]]

(***************************************************************************)
(* Next-state relation                                                     *)
(***************************************************************************)
Rows == 1..(MaxStreams + 1)

Next ==
    \/ \E value \in DtValues : SetDt(value)
    \/ \E typ \in StreamTypes : AddStream(typ)
    \/ \E typ \in StreamTypes, index \in Rows : DeleteStream(typ, index)
    \/ \E typ \in StreamTypes, row \in Rows, col \in StreamColumns :
          \E value \in CellValues(col) : EditStream(typ, row, col, value)
    \/ \E typ \in StreamTypes, row \in Rows, value \in CoefValues :
          EditFilm(typ, row, value)
    \/ \E typ \in StreamTypes, value \in CoefValues : SetFilmCoef(typ, value)
    \/ \E name \in DocumentNames : Load(SavedDocument(name))
    \/ \E des_type \in DesTypes, duty \in DutyValues, cost_ok \in BOOLEAN :
          \E ex_id \in ExIdChoices(Branch(des_type).design),
             stream_source \in HotIdChoices(des_type),
             stream_dest \in ColdIdChoices(des_type) :
             AddExchanger(des_type, ex_id, duty, stream_source, stream_dest, cost_ok)
    \/ \E des_type \in DesTypes, duty \in DutyValues, cost_ok \in BOOLEAN,
          utility_type \in UtilityTypes :
          \E ex_id \in ExIdChoices(Branch(des_type).design),
             ut \in UtilityTemps(utility_type),
             stream_id \in IF utility_type = "hot" THEN ColdIdChoices(des_type)
                           ELSE HotIdChoices(des_type) :
             AddUtilityExchanger(des_type, ex_id, duty, utility_type, stream_id, ut, cost_ok)
    \/ \E des_type \in DesTypes :
          \E ex_id \in ExIdChoices(Branch(des_type).design) :
             DeleteExchanger(ex_id, des_type)
    \/ \E des_type \in DesTypes, stream_type \in StreamTypes, flowrates \in SplitFlows :
          \E stream_id \in IdsOf(PartitionOf(des_type, stream_type))
                           \cup IdsOf(IF stream_type = "hot" THEN hot ELSE cold) :
             SplitStream(des_type, stream_type, stream_id, flowrates)

Spec == Init /\ [][Next]_vars

(***************************************************************************)
(* The engine functions of hensad, applied to stream tables                *)
(*                                                                         *)
(* A second specification: the inputs of the engine are drawn from bounded *)
(* sets of well-formed stream tables (hot streams cool, cold streams heat) *)
(* and every action applies one function of hensad to the values at hand,  *)
(* in the order in which Setup._update_summary calls them.                 *)
(***************************************************************************)
EngineTemps == {50, 100, 150}
EngineFlows == {1, 2}
EngineDts == {10, 20, 50}

(* (tin, tout, flow) of the streams a table may hold *)
HotChoices == {c \in EngineTemps \X EngineTemps \X EngineFlows : c[1] > c[2]}
ColdChoices == {<<c[2], c[1], c[3]>> : c \in HotChoices}

ChoiceKey(c) == c[1] * 10000 + c[2] * 10 + c[3]

(* the tables of n streams S1 .. Sn over the choices, up to row order *)
TablesOf(choices, n) ==
    {[k \in 1..n |-> Stream(StreamName(k), t[k][3], 1, t[k][1], t[k][2])] :
        t \in {u \in [1..n -> choices] :
                  \A i \in 1..n : \A j \in i..n : ChoiceKey(u[i]) <= ChoiceKey(u[j])}}

EngineTables(choices) == UNION {TablesOf(choices, n) : n \in 0..MaxStreams}

(* one hot stream 200 -> 100 and one cold stream 50 -> 150, mf * cp = 2 *)
MatchedPair == <<<<Stream("S1", 2, 1, 200, 100)>>, <<Stream("S1", 2, 1, 50, 150)>>, 10>>

(* stream tables that leave a temperature range without a hot stream       *)
(* (100..150) or without a cold stream (90..140) inside a composite curve  *)
GapInHot ==
    << <<Stream("S1", 1, 1, 200, 150), Stream("S2", 1, 1, 100, 50)>>,
       <<Stream("S1", 1, 1, 50, 150)>>, 10 >>

GapInCold ==
    << <<Stream("S1", 1, 1, 200, 50)>>,
       <<Stream("S1", 1, 1, 30, 90), Stream("S2", 1, 1, 140, 180)>>, 10 >>

(* (hot, cold, dt) *)
EngineInputs ==
    (EngineTables(HotChoices) \X EngineTables(ColdChoices) \X EngineDts)
        \cup {MatchedPair, GapInHot, GapInCold}

(* every stream has its film coefficient set *)
EngineFilm(tbl) == [k \in DOMAIN tbl |-> Film(tbl[k].ID, 1000)]

(* the pinch argument of pinch_streams_tables: not computed yet, none, or  *)
(* a temperature of the hot-side ladder                                    *)
EnginePinches(h, c, d) ==
    LET hint == calculate_intervals(h, c, d)
    IN  {Unset, NaN} \cup {hint[i] : i \in DOMAIN hint}

EngineInit ==
    \E in \in EngineInputs :
        /\ hot = in[1] /\ cold = in[2] /\ dt = in[3]
        /\ hot_film_coef = EngineFilm(in[1]) /\ cold_film_coef = EngineFilm(in[2])
        /\ pinch \in EnginePinches(in[1], in[2], in[3])
        /\ summary = <<>>
        /\ hot_interval = <<NaN>>
        /\ hot_util_req = Unset /\ cold_util_req = Unset
        /\ heat_flow = <<>>
        /\ hot_composite_data = <<>> /\ cold_composite_data = <<>>
        /\ area_network = AreaUnset
        /\ hot_above = <<>> /\ cold_above = <<>> /\ hot_below = <<>> /\ cold_below = <<>>
        /\ above_min_exchangers = Unset /\ below_min_exchangers = Unset
        /\ design_above = <<>> /\ design_below = <<>>
        /\ args = <<>>
        /\ returned = <<>>
        /\ called = Call("engine", "-", "-", "-")
        /\ raised = "none"
        /\ crashed = FALSE
        /\ ops = 0
        /\ rejections = 0

(* summary = calculate_summary_table(hot, cold, dt) *)
ApplySummaryTable ==
    /\ called.op = "engine" /\ pinch = Unset
    /\ IF SummaryRaises(hot, cold, dt)
       THEN raised' = "ValueError" /\ UNCHANGED summary
       ELSE raised' = "none" /\ summary' = calculate_summary_table(hot, cold, dt)
    /\ called' = Call("calculate_summary_table", "-", "-", "-")
    /\ UNCHANGED <<args, returned>>
    /\ UNCHANGED <<inputs, hot_interval, pinch, hot_util_req, cold_util_req, heat_flow,
                   hot_composite_data, cold_composite_data, area_network,
                   above_min_exchangers, below_min_exchangers,
                   partitions, ledgers, crashed, ops, rejections>>

(* pinch, hur, cur = calculate_pinch_utilities(summary) *)
ApplyPinchUtilities ==
    /\ called.op = "calculate_summary_table" /\ raised = "none"
    /\ IF PinchRaises(summary)
       THEN /\ raised' = "UnboundLocalError" /\ crashed' = TRUE
            /\ UNCHANGED <<pinch, hot_util_req, cold_util_req>>
       ELSE \E pu \in {calculate_pinch_utilities(summary)} :
                /\ raised' = "none" /\ crashed' = FALSE
                /\ pinch' = pu.pinch
                /\ hot_util_req' = pu.huq
                /\ cold_util_req' = pu.cuq
    /\ called' = Call("calculate_pinch_utilities", "-", "-", "-")
    /\ UNCHANGED <<args, returned>>
    /\ UNCHANGED <<inputs, summary, hot_interval, heat_flow,
                   hot_composite_data, cold_composite_data, area_network,
                   above_min_exchangers, below_min_exchangers,
                   partitions, ledgers, ops, rejections>>

(* ha, ca, hb, cb = pinch_streams_tables(hot, cold, dt, pinch, films) *)
ApplyPinchStreamsTables ==
    /\ called.op \in {"engine", "calculate_pinch_utilities"}
    /\ pinch # Unset /\ ~crashed
    /\ \E pt \in {pinch_streams_tables(hot, cold, dt, pinch,
                                       hot_film_coef, cold_film_coef)} :
           /\ hot_above' = pt.ha /\ cold_above' = pt.ca
           /\ hot_below' = pt.hb /\ cold_below' = pt.cb
    /\ called' = Call("pinch_streams_tables", "-", "-", "-")
    /\ UNCHANGED <<args, returned>>
    /\ UNCHANGED <<inputs, derived, ledgers, raised, crashed, ops, rejections>>

(* calculate_minimum_exchangers on the two branches *)
ApplyMinimumExchangers ==
    /\ called.op = "pinch_streams_tables"
    /\ above_min_exchangers' = calculate_minimum_exchangers(hot_above, cold_above, "above")
    /\ below_min_exchangers' = calculate_minimum_exchangers(hot_below, cold_below, "below")
    /\ called' = Call("calculate_minimum_exchangers", "-", "-", "-")
    /\ UNCHANGED <<args, returned>>
    /\ UNCHANGED <<inputs, summary, hot_interval, pinch, hot_util_req, cold_util_req,
                   heat_flow, hot_composite_data, cold_composite_data, area_network,
                   partitions, ledgers, raised, crashed, ops, rejections>>

(* the whole slot Setup._update_summary on the inputs *)
ApplyUpdateSummary ==
    /\ called.op = "engine" /\ pinch = Unset
    /\ \E u \in {UpdateResult(hot, cold, dt, hot_film_coef, cold_film_coef, hot_interval)} :
           _update_summary(u)
    /\ called' = Call("_update_summary", "-", "-", "-")
    /\ UNCHANGED <<args, returned>>
    /\ raised' = "none"
    /\ UNCHANGED <<inputs, ops, rejections>>

(* heat_flow = calculate_heat_flows(summary) *)
ApplyHeatFlows ==
    /\ called.op = "calculate_summary_table"
    /\ IF summary = <<>>
       THEN raised' = "ValueError" /\ UNCHANGED heat_flow
       ELSE raised' = "none" /\ heat_flow' = calculate_heat_flows(summary)
    /\ called' = Call("calculate_heat_flows", "-", "-", "-")
    /\ UNCHANGED <<args, returned>>
    /\ UNCHANGED <<inputs, summary, hot_interval, pinch, hot_util_req, cold_util_req,
                   hot_composite_data, cold_composite_data, area_network,
                   above_min_exchangers, below_min_exchangers,
                   partitions, ledgers, crashed, ops, rejections>>

(* the loop of _build_composite_borders on the stored curves: two rows per *)
(* point, before the sort and the drops                                   *)
ApplyBorderLoop ==
    /\ called.op = "_update_summary" /\ ~crashed /\ summary # <<>>
    /\ returned' = new_borders(hot_composite_data, cold_composite_data)
    /\ called' = Call("new_borders", "-", "-", "-")
    /\ UNCHANGED args
    /\ UNCHANGED <<inputs, derived, partitions, ledgers, raised, crashed, ops,
                   rejections>>

(* borders = _build_composite_borders(hTQ, cTQ) on the stored curves *)
ApplyCompositeBorders ==
    /\ called.op = "_update_summary" /\ ~crashed /\ summary # <<>>
    /\ returned' = _build_composite_borders(hot_composite_data, cold_composite_data)
    /\ called' = Call("_build_composite_borders", "-", "-", "-")
    /\ UNCHANGED args
    /\ UNCHANGED <<inputs, derived, partitions, ledgers, raised, crashed, ops,
                   rejections>>

(* segments = calculate_segments_data(hot, cold, dt, hTQ, cTQ, ...) *)
ApplySegmentsData ==
    /\ called.op = "_update_summary" /\ ~crashed /\ summary # <<>>
    /\ IF SegmentsRaise(_build_composite_borders(hot_composite_data,
                                                 cold_composite_data), summary, dt)
       THEN raised' = "ValueError" /\ UNCHANGED <<args, returned>>
       ELSE /\ raised' = "none"
            /\ returned' = calculate_segments_data(hot, cold, dt,
                               hot_composite_data, cold_composite_data, summary)
    /\ called' = Call("calculate_segments_data", "-", "-", "-")
    /\ UNCHANGED args
    /\ UNCHANGED <<inputs, derived, partitions, ledgers, crashed, ops, rejections>>

(***************************************************************************)
(* hensad.cost._get_exchanger_data for a known (exchanger type,            *)
(* arrangement): exdata holds the rows of COST_DATA for the pair, in the   *)
(* order of the sorted index (PRESSURE labels High, Low, Medium)           *)
(***************************************************************************)
(* the rows whose interval [PMIN, PMAX), closed on the left, holds pressure *)
PressureRows(exdata, pressure) ==
    {i \in DOMAIN exdata : exdata[i].PMIN <= pressure /\ pressure < exdata[i].PMAX}

_get_exchanger_data(exdata, area, pressure) ==
    LET pmin == CHOOSE m \in {exdata[i].PMIN : i \in DOMAIN exdata} :
                    \A i \in DOMAIN exdata : m <= exdata[i].PMIN
        pmax == CHOOSE m \in {exdata[i].PMAX : i \in DOMAIN exdata} :
                    \A i \in DOMAIN exdata : exdata[i].PMAX <= m
        rows == PressureRows(exdata, pressure)
        first == CHOOSE i \in rows : \A j \in rows : i <= j
    IN  IF pressure < pmin \/ pressure > pmax
        THEN [exdata |-> <<>>, raises |-> "ValueError"]
        ELSE IF rows = {}
        THEN \* ptype is read without having been assigned
             [exdata |-> <<>>, raises |-> "UnboundLocalError"]
        ELSE IF area < exdata[first].AMIN \/ area > exdata[first].AMAX
        THEN [exdata |-> <<>>, raises |-> "ValueError"]
        ELSE [exdata |-> exdata[first], raises |-> "none"]

(* Rows that COST_DATA may hold for one (exchanger type, arrangement):     *)
(* one bracket, or brackets that follow one another                        *)
CostTables ==
    { << CostRow("Low", 0, 5, 10, 100) >>,
      << CostRow("Low", 0, 5, 10, 100), CostRow("Medium", 5, 10, 10, 50) >>,
      << CostRow("High", 10, 15, 20, 50), CostRow("Low", 0, 5, 10, 100),
         CostRow("Medium", 5, 10, 10, 50) >> }

CostPressures == {-1, 0, 3, 5, 7, 10, 12, 15, 16}
CostAreas == {5, 10, 30, 75, 100, 101}

(* exdata = _get_exchanger_data(ex, arrangement, area, pressure) *)
ApplyGetExchangerData ==
    /\ called.op = "engine" /\ hot = <<>> /\ cold = <<>>
    /\ \E exdata \in CostTables, area \in CostAreas, pressure \in CostPressures :
           /\ args' = [area |-> area, exdata |-> exdata, pressure |-> pressure]
           /\ \E out \in {_get_exchanger_data(exdata, area, pressure)} :
                  /\ raised' = out.raises
                  /\ returned' = out.exdata
    /\ called' = Call("_get_exchanger_data", "-", "-", "-")
    /\ UNCHANGED <<inputs, derived, partitions, ledgers, crashed, ops, rejections>>

(***************************************************************************)
(* hensad.calculate_eaoc, called once per candidate by the loop of         *)
(* EAOCDialog._plot_graph (and of tests/eaoc_test.py)                      *)
(***************************************************************************)
(* PTS = np.linspace(DTMIN, DTMAX, NPTS) for (10, 50, 3) and (20, 50, 2) *)
EaocCandidates == {<<10, 30, 50>>, <<20, 50>>}

(* a variant that caps the temperatures in the caller's rows *)
CallerTablesAfterSplit_inplace(h, c, d, p) ==
    IF p = NaN
    THEN <<h, c>>
    ELSE <<[k \in DOMAIN h |->
               IF h[k].TIN >= p /\ h[k].TOUT < p
               THEN [h[k] EXCEPT !.TOUT = p] ELSE h[k]],
           [k \in DOMAIN c |->
               IF c[k].TOUT >= p - d /\ c[k].TIN < p - d
               THEN [c[k] EXCEPT !.TIN = p - d] ELSE c[k]]>>

(* the (hot, cold) frames of the caller once pinch_streams_tables returns: *)
(* hot.loc[mask, :] with a boolean mask and copy(deep=True) give new       *)
(* frames, so the caps are written to the copies                           *)
CallerTablesAfterSplit(h, c, d, p) == <<h, c>>

(* netarea = sum(SUM_QH / (DTLN * 0.8)) over the segments: a real number,  *)
(* kept as the segments and the coefficient columns it is computed from    *)
NetArea(segments, hot_coefs, cold_coefs) ==
    <<segments, CoefColumn(hot_coefs), CoefColumn(cold_coefs)>>

(* the tuple returned; eaoc = cc * n_ex * cbm(netarea / n_ex) + huc + cuc  *)
(* is a real number, kept as the values it is computed from                *)
EaocRow(netarea, huq, cuq, n_ex) ==
    [huq |-> huq, cuq |-> cuq, netarea |-> netarea, n_ex |-> n_ex,
     eaoc |-> <<netarea, n_ex, huq, cuq>>]

(* the call from the composite curves on, when the summary table has a     *)
(* pinch row; sg is (calculate_segments_data raises, the segments)         *)
EaocOfPinch(pu, s, h, c, d, hf, cf) ==
    CHOOSE r \in
        {IF sg[1]
         THEN [tables |-> <<h, c>>, raises |-> "ValueError"]
         ELSE [row |-> EaocRow(NetArea(sg[2], hf, cf), pu.huq, pu.cuq,
                               calculate_minimum_exchangers(pt.ha, pt.ca, "above")
                               + calculate_minimum_exchangers(pt.hb, pt.cb, "below")),
               tables |-> CallerTablesAfterSplit(h, c, d, pu.pinch),
               raises |-> "none"] :
            sg \in {IF SegmentsRaise(_build_composite_borders(ce.hTQ, ce.cTQ), s, d)
                    THEN <<TRUE, <<>> >>
                    ELSE <<FALSE, calculate_segments_data(h, c, d, ce.hTQ, ce.cTQ, s)>> :
                       ce \in {calculate_composite_enthalpy(h, c, d,
                                                            pu.huq, pu.cuq, s)}},
            pt \in {pinch_streams_tables(h, c, d, pu.pinch, hf, cf)}} : TRUE

(* raises: the exception that ends the call before the cost lookup;        *)
(* tables: the caller's (hot, cold) afterwards; row: the tuple returned    *)
(* when the cost lookup succeeds                                           *)
calculate_eaoc(h, c, d, hf, cf) ==
    IF SummaryRaises(h, c, d)
    THEN [tables |-> <<h, c>>, raises |-> "ValueError"]
    ELSE CHOOSE r \in
             {IF PinchRaises(s)
              THEN [tables |-> <<h, c>>, raises |-> "UnboundLocalError"]
              ELSE EaocOfPinch(calculate_pinch_utilities(s), s, h, c, d, hf, cf) :
                 s \in {calculate_summary_table(h, c, d)}} : TRUE

(* _plot_graph up to its loop: the candidates and the tables of the setup; *)
(* the sweep starts at the minimum approach of the inputs at hand          *)
PlotGraph ==
    /\ called.op = "engine" /\ pinch = Unset
    /\ \E pts \in EaocCandidates :
           /\ dt = pts[1]
           /\ args' = [hot |-> hot, cold |-> cold, PTS |-> pts,
                       hot_coef |-> hot_film_coef, cold_coef |-> cold_film_coef]
    /\ returned' = <<>>
    /\ raised' = "none"
    /\ called' = Call("_plot_graph", "-", "-", "-")
    /\ UNCHANGED <<inputs, derived, partitions, ledgers, crashed, ops, rejections>>

(* one pass of the loop: calculate_eaoc(hot, cold, dt, hot_coef, cold_coef, *)
(* ...) on the frames of the setup, for the next candidate; the area per    *)
(* exchanger is inside the range of the cost data (cost_ok) or the lookup   *)
(* raises the range error                                                   *)
ApplyEaoc ==
    /\ called.op \in {"_plot_graph", "calculate_eaoc"} /\ raised = "none"
    /\ Len(returned) < Len(args.PTS)
    /\ \E out \in {calculate_eaoc(hot, cold, args.PTS[Len(returned) + 1],
                                  hot_film_coef, cold_film_coef)} :
           /\ hot' = out.tables[1] /\ cold' = out.tables[2]
           /\ IF out.raises # "none"
              THEN raised' = out.raises /\ UNCHANGED returned
              ELSE \E cost_ok \in BOOLEAN :
                      IF cost_ok
                      THEN raised' = "none" /\ returned' = Append(returned, out.row)
                      ELSE raised' = "ValueError" /\ UNCHANGED returned
    /\ called' = Call("calculate_eaoc", "-", "-", "-")
    /\ UNCHANGED <<dt, hot_film_coef, cold_film_coef, args>>
    /\ UNCHANGED <<derived, partitions, ledgers, crashed, ops, rejections>>

EngineNext ==
    \/ ApplySummaryTable
    \/ ApplyHeatFlows
    \/ ApplyBorderLoop
    \/ ApplyCompositeBorders
    \/ ApplySegmentsData
    \/ ApplyGetExchangerData
    \/ PlotGraph
    \/ ApplyEaoc
    \/ ApplyPinchUtilities
    \/ ApplyPinchStreamsTables
    \/ ApplyMinimumExchangers
    \/ ApplyUpdateSummary

EngineSpec == EngineInit /\ [][EngineNext]_vars

(* Setup.min_exchangers *)
min_exchangers == above_min_exchangers + below_min_exchangers

(***************************************************************************)
(* Properties                                                              *)
(***************************************************************************)
StreamOrDtOps == {"dt", "add_stream", "delete_stream", "stream_edit"}
FilmOps == {"film_edit", "film_setter"}
AddOps == {"add_exchanger", "add_utility_exchanger"}

(* what _update_summary yields on the inputs as they are now *)
Fresh == UpdateResult(hot, cold, dt, hot_film_coef, cold_film_coef, hot_interval)

(* C1: after add_stream, delete_stream, a stream cell edit or the dt       *)
(* setter returned, both branch ledgers are empty and the summary table,   *)
(* pinch, utilities, partition tables and minimum-exchanger targets are    *)
(* the ones that the inputs, as they are on return, give.                  *)
C1_RecomputedFromNewInputs ==
    (called.op \in StreamOrDtOps /\ ~crashed) =>
        \E u \in {Fresh} :
            /\ ~u.crashes
            /\ design_above = <<>> /\ design_below = <<>>
            /\ summary = u.summary
            /\ pinch = u.pinch
            /\ hot_util_req = u.hur /\ cold_util_req = u.cur
            /\ hot_above = u.ha /\ cold_above = u.ca
            /\ hot_below = u.hb /\ cold_below = u.cb
            /\ above_min_exchangers = calculate_minimum_exchangers(u.ha, u.ca, "above")
            /\ below_min_exchangers = calculate_minimum_exchangers(u.hb, u.cb, "below")

(* the ids a stream id takes through at most two splits *)
SplitNames(id) ==
    {id} \cup {id \o "_" \o SplitLetter(i) : i \in 1..4}
         \cup {id \o "_" \o SplitLetter(i) \o "_" \o SplitLetter(j) : i, j \in 1..4}

(* every row of the partition table carries the coefficient of its stream  *)
(* in the table that the current inputs give                               *)
CarriesCoefOf(table, fresh) ==
    \A k \in DOMAIN table :
        \E j \in DOMAIN fresh : /\ table[k].ID \in SplitNames(fresh[j].ID)
                                /\ table[k].COEF = fresh[j].COEF

(* C2: after a film-coefficient edit (the setter or a cell edit) returned, *)
(* the network area, the segment table and the coefficients carried by the *)
(* four partition tables are the ones that the current streams, dt and     *)
(* film coefficients give.                                                 *)
C2_FilmEditRecomputes ==
    (called.op \in FilmOps) =>
        \E u \in {Fresh} :
            /\ ~u.crashes
            /\ area_network = u.area
            /\ CarriesCoefOf(hot_above, u.ha) /\ CarriesCoefOf(cold_above, u.ca)
            /\ CarriesCoefOf(hot_below, u.hb) /\ CarriesCoefOf(cold_below, u.cb)

(* the ledger and the target of a branch *)
LedgerOf(des_type) == IF des_type = "abv" THEN design_above ELSE design_below
TargetOf(des_type) ==
    IF des_type = "abv" THEN above_min_exchangers ELSE below_min_exchangers

(* the same, after the step *)
LedgerAfter(des_type) == IF des_type = "abv" THEN design_above' ELSE design_below'

PartitionAfter(des_type, stream_type) ==
    IF des_type = "abv"
    THEN (IF stream_type = "hot" THEN hot_above' ELSE cold_above')
    ELSE (IF stream_type = "hot" THEN hot_below' ELSE cold_below')

LedgerWithinTarget ==
    \A d \in DesTypes : TargetOf(d) # Unset => Len(LedgerOf(d)) <= TargetOf(d)

AddOnFullLedgerRejected ==
    (/\ called'.op \in AddOps
     /\ TargetOf(called'.des_type) # Unset
     /\ Len(LedgerOf(called'.des_type)) >= TargetOf(called'.des_type))
    => (raised' # "none" /\ UNCHANGED ledgers)

(* C3: a branch ledger never holds more records than the branch's          *)
(* minimum-exchanger target, and an add on a branch whose ledger already   *)
(* holds that many records is rejected.                                    *)
C3_LedgerWithinTarget == []LedgerWithinTarget /\ [][AddOnFullLedgerRejected]_vars

(* an add was rejected on the branch below the pinch, whose ledger is full *)
C3_Witness ==
    /\ called.op \in AddOps /\ called.des_type = "blw" /\ raised = "ValueError"
    /\ below_min_exchangers > 0
    /\ Len(design_below) = below_min_exchangers

HasId(design, id) == \E k \in DOMAIN design : design[k].ID = id

NoDuplicateIds ==
    \A d \in DesTypes :
        \A i, j \in DOMAIN LedgerOf(d) :
            LedgerOf(d)[i].ID = LedgerOf(d)[j].ID => i = j

DuplicateIdRejected ==
    /\ (called'.op \in AddOps /\ HasId(LedgerOf(called'.des_type), called'.id))
          => (raised' # "none" /\ UNCHANGED ledgers)
    \* a deleted id is free again in its ledger
    /\ (called'.op = "delete_exchanger" /\ raised' = "none")
          => ~HasId(LedgerAfter(called'.des_type), called'.id)

(* C4: no two records of one branch ledger have the same exchanger id; an  *)
(* add with an id the branch holds is rejected; the id may be used in the  *)
(* other branch, and is free again once its record was deleted.            *)
C4_UniqueIdsPerBranch == []NoDuplicateIds /\ [][DuplicateIdRejected]_vars

(* an add stored an id that the other branch holds too *)
C4_Witness ==
    /\ called.op \in AddOps /\ raised = "none"
    /\ HasId(design_above, called.id) /\ HasId(design_below, called.id)

(* the duties of the records attached to the streams of a partition table  *)
DutyOn(design, id, isHot) ==
    SumSeq([k \in DOMAIN design |->
               IF (IF isHot THEN design[k].SOURCE ELSE design[k].DEST) = id
               THEN design[k].DUTY ELSE 0])

WithinCapacity(design, table, isHot) ==
    \A k \in DOMAIN table :
        DutyOn(design, table[k].ID, isHot)
            <= table[k].FLOW * table[k].CP * Abs(table[k].TIN - table[k].TOUT)

(* C5: in each branch, the duties of the ledger records attached to a      *)
(* stream of the partition sum to at most the stream's enthalpy capacity   *)
(* mf * cp * |T_in - T_out|.                                               *)
C5_DutiesWithinCapacity ==
    /\ WithinCapacity(design_above, hot_above, TRUE)
    /\ WithinCapacity(design_above, cold_above, FALSE)
    /\ WithinCapacity(design_below, hot_below, TRUE)
    /\ WithinCapacity(design_below, cold_below, FALSE)

(* C6: every record of either ledger has a log-mean temperature            *)
(* difference of at least the minimum approach temperature.                *)
C6_LmtdAtLeastDt ==
    \A d \in DesTypes :
        \A k \in DOMAIN LedgerOf(d) : LedgerOf(d)[k].DT >= 100 * dt

RejectedAddLeavesState ==
    (called'.op \in AddOps /\ raised' # "none") => UNCHANGED <<ledgers, partitions>>

(* C7: a rejected add_exchanger or add_utility_exchanger raises to the     *)
(* caller and leaves both ledgers and the four partition tables as before. *)
C7_RejectedAddLeavesState == [][RejectedAddLeavesState]_vars

(* an add was rejected while a ledger holds a record *)
C7_Witness ==
    /\ called.op \in AddOps /\ raised # "none"
    /\ (design_above # <<>> \/ design_below # <<>>)

OtherBranch(des_type) == IF des_type = "abv" THEN "blw" ELSE "abv"

DeleteRemovesOneRecord ==
    (called'.op = "delete_exchanger") =>
        LET old == LedgerOf(called'.des_type)
            new == LedgerAfter(called'.des_type)
        IN  /\ IF HasId(old, called'.id)
               THEN /\ raised' = "none"
                    /\ \E k \in DOMAIN old :
                          /\ old[k].ID = called'.id
                          /\ new = [i \in 1..(Len(old) - 1) |->
                                       IF i < k THEN old[i] ELSE old[i + 1]]
               ELSE raised' = "KeyError" /\ new = old
            /\ LedgerAfter(OtherBranch(called'.des_type))
                  = LedgerOf(OtherBranch(called'.des_type))
            /\ UNCHANGED partitions

(* C8: delete_exchanger(id, branch) removes exactly the record with that   *)
(* id, keeps the other records of the ledger as they are and in order,     *)
(* leaves the other ledger and the partition tables alone, and with an id  *)
(* the ledger does not hold raises KeyError and changes nothing.           *)
C8_DeleteRemovesOneRecord == [][DeleteRemovesOneRecord]_vars

(* a record was deleted from a ledger that keeps another record *)
C8_Witness ==
    /\ called.op = "delete_exchanger" /\ raised = "none"
    /\ LedgerOf(called.des_type) # <<>>

SplitConservesFlow ==
    (called'.op = "split_stream") =>
        LET old == PartitionOf(called'.des_type, called'.typ)
            new == PartitionAfter(called'.des_type, called'.typ)
            id == called'.id
        IN  IF raised' = "none"
            THEN \E k \in DOMAIN old : \E n \in 1..(Len(new) - Len(old) + 1) :
                    /\ old[k].ID = id
                    /\ \A j \in DOMAIN new : new[j].ID # id
                    /\ Len(new) = Len(old) - 1 + n
                    /\ SubSeq(new, 1, Len(old) - 1)
                          = [i \in 1..(Len(old) - 1) |->
                                IF i < k THEN old[i] ELSE old[i + 1]]
                    /\ \A i \in 1..n :
                          LET sub == new[Len(old) - 1 + i]
                          IN  /\ sub.ID = id \o "_" \o SplitLetter(i)
                              /\ sub.CP = old[k].CP
                              /\ sub.TIN = old[k].TIN /\ sub.TOUT = old[k].TOUT
                              /\ sub.COEF = old[k].COEF
                    /\ SumSeq([i \in 1..n |-> new[Len(old) - 1 + i].FLOW]) = old[k].FLOW
            ELSE UNCHANGED <<partitions, ledgers>>

(* C9: split_stream succeeds only with flows that sum to the flow of the   *)
(* named partition stream; then the table has lost the original id and     *)
(* gained, at its end, one sub-stream per flow, named id_A, id_B, ... with *)
(* the original cp, temperatures and film coefficient; a rejected call     *)
(* leaves the partition tables and both ledgers as they were.              *)
C9_SplitConservesFlow == [][SplitConservesFlow]_vars

(* a stream was split in two *)
C9_Witness ==
    /\ called.op = "split_stream" /\ raised = "none"
    /\ \E k \in DOMAIN PartitionOf(called.des_type, called.typ) :
          PartitionOf(called.des_type, called.typ)[k].ID = called.id \o "_B"

SplitFrame ==
    (called'.op = "split_stream" /\ raised' = "none") =>
        /\ design_above' = <<>> /\ design_below' = <<>>
        /\ UNCHANGED <<hot, cold>>
        /\ \A d \in DesTypes, t \in StreamTypes :
              (PartitionAfter(d, t) # PartitionOf(d, t))
                  <=> (d = called'.des_type /\ t = called'.typ)

(* C10: a successful split_stream empties both ledgers, replaces the one   *)
(* partition table that holds the split stream and leaves the other three  *)
(* partition tables and the hot and cold stream tables unchanged.          *)
C10_SplitResetsLedgers == [][SplitFrame]_vars

(* a stream was split after its first sub-stream appeared, ledgers empty *)
C10_Witness ==
    /\ called.op = "split_stream" /\ raised = "none"
    /\ design_above = <<>> /\ design_below = <<>>
    /\ \E k \in DOMAIN PartitionOf(called.des_type, called.typ) :
          PartitionOf(called.des_type, called.typ)[k].ID = called.id \o "_A"

(***************************************************************************)
(* The problem-table cascade, as the reference for the utilities           *)
(***************************************************************************)
RECURSIVE Cascade(_, _)
(* the heat leaving each interval, top down, with heat `top` entering the top *)
Cascade(ex, top) ==
    IF ex = <<>> THEN <<>>
    ELSE <<top + Head(ex)>> \o Cascade(Tail(ex), top + Head(ex))

(* max(0, -min(running cascade)) *)
LeastHotUtility(ex) ==
    LET c == Cascade(ex, 0)
        m == SetMin({c[k] : k \in DOMAIN c})
    IN  IF m < 0 THEN 0 - m ELSE 0

PinchUtilitiesReturned == called.op = "calculate_pinch_utilities" /\ ~crashed

(* C11: the hot-utility duty that calculate_pinch_utilities reports for an *)
(* interval table is max(0, -min of the running top-down cascade of the    *)
(* excess heats with zero heat input).                                     *)
C11_HotUtilityIsCascadeMinimum ==
    PinchUtilitiesReturned =>
        hot_util_req = LeastHotUtility(ExHeatCol(summary))

(* C12: when calculate_pinch_utilities reports a pinch, it is the lower    *)
(* boundary of the first interval, from the hottest down, that the cascade *)
(* with the hot utility added at the top leaves with zero heat, and the    *)
(* cold utility is what that cascade leaves the bottom interval with.      *)
C12_PinchIsFirstZeroOfCascade ==
    (PinchUtilitiesReturned /\ pinch # NaN) =>
        LET a == Cascade(ExHeatCol(summary), hot_util_req)
            zeros == {k \in DOMAIN a : a[k] = 0}
        IN  /\ zeros # {}
            /\ pinch = summary[SetMin(zeros)].TOUT
            /\ cold_util_req = a[Len(a)]

(* the adjusted cascade is zero at a boundary strictly inside the ladder *)
TouchesZeroInside(ex) ==
    LET a == Cascade(ex, LeastHotUtility(ex))
    IN  \E k \in 1..(Len(a) - 1) : a[k] = 0

NetDeficit(ex) == IF SumSeq(ex) < 0 THEN 0 - SumSeq(ex) ELSE 0

(* C13: calculate_pinch_utilities returns for every interval table with at *)
(* least one interval; when the adjusted cascade is not zero strictly      *)
(* inside the temperature range the result is no pinch, a hot utility of   *)
(* the total net deficit and cold utility 0.                               *)
C13_PinchUtilitiesNeverFails ==
    (called.op = "calculate_pinch_utilities") =>
        /\ ~crashed
        /\ ~TouchesZeroInside(ExHeatCol(summary)) =>
               /\ pinch = NaN
               /\ hot_util_req = NetDeficit(ExHeatCol(summary))
               /\ cold_util_req = 0

UpdateSummaryRan == called.op = "_update_summary"

MatchedPairComputed == UpdateSummaryRan /\ <<hot, cold, dt>> = MatchedPair

(* C14 as stated: for one hot stream 200 -> 100 and one cold stream        *)
(* 50 -> 150 with mf * cp = 2 and dt = 10 the engine reports a hot-side    *)
(* pinch at 110, no utilities and a total minimum exchanger count of 1.    *)
C14_MatchedPairPinchAt110 ==
    MatchedPairComputed =>
        /\ ~crashed
        /\ pinch = 110
        /\ hot_util_req = 0 /\ cold_util_req = 0
        /\ min_exchangers = 1

(* C14, amended: for that pair the engine reports no pinch, hot utility 0, *)
(* cold utility 0 and a total minimum exchanger count of 2.                *)
C14_MatchedPairNoPinch ==
    MatchedPairComputed =>
        /\ ~crashed
        /\ pinch = NaN
        /\ hot_util_req = 0 /\ cold_util_req = 0
        /\ min_exchangers = 2

C14_Witness == MatchedPairComputed /\ Len(summary) = 3

SingleHotComputed ==
    /\ UpdateSummaryRan
    /\ Len(hot) = 1 /\ hot[1].TIN = 150 /\ hot[1].TOUT = 50
    /\ cold = <<>>

(* C15: with a single hot stream cooling 150 to 50 and no cold stream the  *)
(* engine reports no pinch, hot utility 0 and a cold utility of the full   *)
(* duty mf * cp * 100 of the stream.                                       *)
C15_SingleHotStreamIsAllColdUtility ==
    SingleHotComputed =>
        /\ ~crashed
        /\ pinch = NaN
        /\ hot_util_req = 0
        /\ cold_util_req = hot[1].FLOW * hot[1].CP * 100

(* the duty mf * cp * |T_in - T_out| of the streams of a table *)
TableDuty(tbl) ==
    SumSeq([k \in DOMAIN tbl |-> tbl[k].FLOW * tbl[k].CP * Abs(tbl[k].TIN - tbl[k].TOUT)])

SummaryTableReturned == called.op = "calculate_summary_table" /\ raised = "none"

(* C16: for hot streams that cool, cold streams that heat and a positive   *)
(* dt, the excess heats of the intervals of calculate_summary_table sum to *)
(* the duty of the hot streams minus the duty of the cold streams, and a   *)
(* stream is counted in exactly the intervals inside its (shifted) range.  *)
C16_ExcessHeatIsNetImbalance ==
    SummaryTableReturned =>
        /\ SumSeq(ExHeatCol(summary)) = TableDuty(hot) - TableDuty(cold)
        /\ \A i \in DOMAIN summary :
              /\ \A k \in DOMAIN hot :
                    (\E j \in DOMAIN summary[i].HOTSTRIDX : summary[i].HOTSTRIDX[j] = k)
                        <=> (hot[k].TOUT <= summary[i].TOUT /\ summary[i].TIN <= hot[k].TIN)
              /\ \A k \in DOMAIN cold :
                    (\E j \in DOMAIN summary[i].COLDSTRIDX : summary[i].COLDSTRIDX[j] = k)
                        <=> (cold[k].TIN + dt <= summary[i].TOUT
                             /\ summary[i].TIN <= cold[k].TOUT + dt)

C16_Witness ==
    /\ SummaryTableReturned
    /\ Len(hot) = 2 /\ Len(cold) = 2 /\ Len(summary) >= 4
    /\ hot[1].TOUT # hot[2].TOUT

(* the stream columns of the rows of a partition table *)
StreamsOf(tbl) ==
    [k \in DOMAIN tbl |->
        Stream(tbl[k].ID, tbl[k].FLOW, tbl[k].CP, tbl[k].TIN, tbl[k].TOUT)]

PinchTablesReturned == called.op = "pinch_streams_tables"

(* C17: when there is no pinch, pinch_streams_tables returns all hot and   *)
(* all cold streams, with their temperatures and flows as they are, as the *)
(* above partition and two empty tables as the below partition.            *)
C17_NoPinchAllStreamsAbove ==
    (PinchTablesReturned /\ pinch = NaN) =>
        /\ StreamsOf(hot_above) = hot
        /\ StreamsOf(cold_above) = cold
        /\ hot_below = <<>> /\ cold_below = <<>>

C17_Witness ==
    /\ PinchTablesReturned /\ pinch = NaN
    /\ Len(hot) = 2 /\ Len(cold) = 2

(* the rows of a partition table that belong to the stream s *)
PartsOf(table, s) == {k \in DOMAIN table : table[k].ID = s.ID}

(* the table holds the stream s exactly when `in` holds, once, with the    *)
(* temperatures tin and tout and everything else as in s                   *)
HoldsPart(table, s, in, tin, tout) ==
    IF in
    THEN /\ Cardinality(PartsOf(table, s)) = 1
         /\ \A k \in PartsOf(table, s) :
               /\ table[k].FLOW = s.FLOW /\ table[k].CP = s.CP
               /\ table[k].TIN = tin /\ table[k].TOUT = tout
    ELSE PartsOf(table, s) = {}

(* the duty of the parts of the stream s in a partition table *)
PartDuty(table, s) ==
    SumSeq([k \in DOMAIN table |->
               IF table[k].ID = s.ID
               THEN table[k].FLOW * table[k].CP * Abs(table[k].TIN - table[k].TOUT)
               ELSE 0])

StreamDuty(s) == s.FLOW * s.CP * Abs(s.TIN - s.TOUT)

(* C18: with a pinch, a hot stream is above exactly when T_in >= pinch,    *)
(* with T_out raised to the pinch if below it, and below exactly when      *)
(* T_out < pinch, with T_in lowered to the pinch if at or above it; a cold *)
(* stream likewise against pinch - dt.  Every temperature of an above      *)
(* table is >= the (shifted) pinch, every temperature of a below table is  *)
(* <= it, and the duties of the two parts of a stream sum to its duty.     *)
C18_PartitionClampsAtPinch ==
    (PinchTablesReturned /\ pinch # NaN) =>
        /\ \A k \in DOMAIN hot :
              /\ HoldsPart(hot_above, hot[k], hot[k].TIN >= pinch, hot[k].TIN,
                           IF hot[k].TOUT < pinch THEN pinch ELSE hot[k].TOUT)
              /\ HoldsPart(hot_below, hot[k], hot[k].TOUT < pinch,
                           IF hot[k].TIN >= pinch THEN pinch ELSE hot[k].TIN,
                           hot[k].TOUT)
              /\ PartDuty(hot_above, hot[k]) + PartDuty(hot_below, hot[k])
                     = StreamDuty(hot[k])
        /\ \A k \in DOMAIN cold :
              /\ HoldsPart(cold_above, cold[k], cold[k].TOUT >= pinch - dt,
                           IF cold[k].TIN < pinch - dt THEN pinch - dt ELSE cold[k].TIN,
                           cold[k].TOUT)
              /\ HoldsPart(cold_below, cold[k], cold[k].TIN < pinch - dt,
                           cold[k].TIN,
                           IF cold[k].TOUT >= pinch - dt THEN pinch - dt ELSE cold[k].TOUT)
              /\ PartDuty(cold_above, cold[k]) + PartDuty(cold_below, cold[k])
                     = StreamDuty(cold[k])
        /\ Len(hot_above) + Len(hot_below)
               = Cardinality({k \in DOMAIN hot : hot[k].TIN >= pinch})
                 + Cardinality({k \in DOMAIN hot : hot[k].TOUT < pinch})
        /\ Len(cold_above) + Len(cold_below)
               = Cardinality({k \in DOMAIN cold : cold[k].TOUT >= pinch - dt})
                 + Cardinality({k \in DOMAIN cold : cold[k].TIN < pinch - dt})
        /\ \A k \in DOMAIN hot_above :
              hot_above[k].TIN >= pinch /\ hot_above[k].TOUT >= pinch
        /\ \A k \in DOMAIN hot_below :
              hot_below[k].TIN <= pinch /\ hot_below[k].TOUT <= pinch
        /\ \A k \in DOMAIN cold_above :
              cold_above[k].TIN >= pinch - dt /\ cold_above[k].TOUT >= pinch - dt
        /\ \A k \in DOMAIN cold_below :
              cold_below[k].TIN <= pinch - dt /\ cold_below[k].TOUT <= pinch - dt

(* a hot and a cold stream that the pinch cuts in two *)
C18_Witness ==
    /\ PinchTablesReturned /\ pinch # NaN
    /\ \E k \in DOMAIN hot : hot[k].TIN > pinch /\ hot[k].TOUT < pinch
    /\ \E k \in DOMAIN cold : cold[k].TOUT > pinch - dt /\ cold[k].TIN < pinch - dt
    /\ Len(hot_above) = 2 /\ Len(hot_below) = 1

(* every row of the partition table has the coefficient of the film record *)
(* with its id                                                             *)
CarriesFilmOf(table, film) ==
    \A k \in DOMAIN table :
        \E j \in DOMAIN film : film[j].ID = table[k].ID /\ film[j].COEF = table[k].COEF

(* C19: after every recomputation, each row of the four partition tables   *)
(* carries the film coefficient of the stream with the same id from the    *)
(* film-coefficient tables, with a pinch and without.                      *)
C19_PartitionsCarryFilmCoefficient ==
    (UpdateSummaryRan /\ ~crashed) =>
        /\ CarriesFilmOf(hot_above, hot_film_coef)
        /\ CarriesFilmOf(hot_below, hot_film_coef)
        /\ CarriesFilmOf(cold_above, cold_film_coef)
        /\ CarriesFilmOf(cold_below, cold_film_coef)

(* C20: in every state in which the targets are set, each branch target is *)
(* hot streams + cold streams + 1 (its utility) - 1 of the branch's        *)
(* current partition tables, and the total is the sum of the two targets.  *)
C20_TargetsMatchPartitions ==
    (above_min_exchangers # Unset /\ below_min_exchangers # Unset) =>
        /\ above_min_exchangers = Len(hot_above) + Len(cold_above) + 1 + 0 - 1
        /\ below_min_exchangers = Len(hot_below) + Len(cold_below) + 0 + 1 - 1
        /\ min_exchangers = above_min_exchangers + below_min_exchangers

(***************************************************************************)
(* Composite curves                                                        *)
(***************************************************************************)
CurvesComputed == UpdateSummaryRan /\ ~crashed /\ summary # <<>>

NonDecreasing(curve) ==
    \A i \in 1..(Len(curve) - 1) :
        /\ curve[i].Q <= curve[i + 1].Q
        /\ curve[i].T <= curve[i + 1].T

StartsLowest(curve) == \A i \in DOMAIN curve : curve[1].T <= curve[i].T

Span(curve) == curve[Len(curve)].Q - curve[1].Q

(* C21: the hot composite curve starts at Q = 0 and the cold one at        *)
(* Q = cold-utility duty, both at their lowest temperature; Q and T never  *)
(* decrease along a curve; the Q span of the hot (cold) curve is the sum   *)
(* of the hot (cold) stream duties.                                        *)
C21_CompositeCurvesShape ==
    CurvesComputed =>
        /\ hot_composite_data[1].Q = 0
        /\ cold_composite_data[1].Q = cold_util_req
        /\ StartsLowest(hot_composite_data)
        /\ StartsLowest(cold_composite_data)
        /\ NonDecreasing(hot_composite_data)
        /\ NonDecreasing(cold_composite_data)
        /\ Span(hot_composite_data) = TableDuty(hot)
        /\ Span(cold_composite_data) = TableDuty(cold)

C21_Witness ==
    /\ CurvesComputed
    /\ cold_util_req > 0
    /\ Len(hot) = 2
    /\ Len(hot_composite_data) >= 4
    /\ Span(cold_composite_data) > 0

(***************************************************************************)
(* Heat flows                                                              *)
(***************************************************************************)
HeatFlowsCalled == called.op = "calculate_heat_flows"

Max0(x) == IF x > 0 THEN x ELSE 0

(* heat entering row i of a heat-flow table from the row above *)
HeatIn(hf, i) == IF i = 1 THEN 0 ELSE hf[i - 1].OUT

(* C24: calculate_heat_flows returns one row per interval, in order, with  *)
(* heat_out_i = max(0, heat_out_(i-1) + excess_heat_i) and utility_i =     *)
(* max(0, -(heat_out_(i-1) + excess_heat_i)), out_0 = 0; utility and       *)
(* heat_out are never negative and never both non-zero, excess_heat is the *)
(* summary's column; on an empty interval table it raises.                 *)
C24_HeatFlowsCascade ==
    HeatFlowsCalled =>
        IF summary = <<>>
        THEN raised = "ValueError" /\ heat_flow = <<>>
        ELSE /\ raised = "none"
             /\ Len(heat_flow) = Len(summary)
             /\ \A i \in DOMAIN heat_flow :
                    /\ heat_flow[i].EXHEAT = summary[i].EXHEAT
                    /\ heat_flow[i].OUT = Max0(HeatIn(heat_flow, i) + summary[i].EXHEAT)
                    /\ heat_flow[i].UTIL = Max0(-(HeatIn(heat_flow, i) + summary[i].EXHEAT))
                    /\ heat_flow[i].OUT >= 0 /\ heat_flow[i].UTIL >= 0
                    /\ heat_flow[i].OUT = 0 \/ heat_flow[i].UTIL = 0

C24_Witness ==
    /\ HeatFlowsCalled /\ raised = "none"
    /\ Len(heat_flow) >= 3
    /\ \E i, j \in DOMAIN heat_flow :
           i < j /\ heat_flow[i].UTIL > 0 /\ heat_flow[j].OUT > heat_flow[j].EXHEAT
                 /\ heat_flow[j].EXHEAT > 0

C24_WitnessEmpty == HeatFlowsCalled /\ raised = "ValueError"

(***************************************************************************)
(* The cascade of calculate_heat_flows against calculate_pinch_utilities   *)
(***************************************************************************)
UtilityColumn(hf) == [i \in DOMAIN hf |-> hf[i].UTIL]

(* C28: the utility column of calculate_heat_flows sums to the hot-utility *)
(* duty returned by calculate_pinch_utilities, the heat_out of its last    *)
(* row is the returned cold-utility duty, and hot utility minus cold       *)
(* utility is the total cold duty minus the total hot duty.                *)
C28_CascadeComponentsAgree ==
    CurvesComputed =>
        /\ SumSeq(UtilityColumn(heat_flow)) = hot_util_req
        /\ heat_flow[Len(heat_flow)].OUT = cold_util_req
        /\ hot_util_req - cold_util_req = TableDuty(cold) - TableDuty(hot)

(***************************************************************************)
(* The hot-side interval ladder                                            *)
(***************************************************************************)
(* the ladder is the chain of interval borders of a summary table *)
LadderOf(hint, s) ==
    /\ Len(hint) = Len(s) + 1
    /\ \A i \in DOMAIN s : s[i].TIN = hint[i] /\ s[i].TOUT = hint[i + 1]

(* C30: in every reachable state hot_interval has one more entry than the  *)
(* summary has intervals and its consecutive entries are the T_in / T_out  *)
(* of the intervals; when the summary is empty because an input is invalid *)
(* the ladder holds no temperature of an earlier computation.              *)
C30_LadderAgreesWithSummary ==
    IF summary = <<>>
    THEN hot_interval = <<NaN>>
    ELSE LadderOf(hot_interval, summary)

(***************************************************************************)
(* Film-coefficient tables against the stream tables                       *)
(***************************************************************************)
(* one film record per stream, in the same row order, with the same id *)
FilmMatches(film, streams) ==
    /\ Len(film) = Len(streams)
    /\ \A k \in DOMAIN streams : film[k].ID = streams[k].ID

(* the coefficient column a recomputation read pairs every stream with the *)
(* coefficient of its own film record                                      *)
PairedWithOwn(column, film, streams) ==
    /\ Len(column) = Len(streams)
    /\ \A k \in DOMAIN streams : k \in DOMAIN film /\ column[k] = film[k].COEF

AreaComputed == area_network[1] = "computed"

(* C23: at every recomputation, and after add_stream and delete_stream     *)
(* returned, the hot (cold) film table has one record per hot (cold)       *)
(* stream, in the same row order and with the same ids, so the stored      *)
(* network area was computed with each stream paired with its own          *)
(* coefficient.                                                            *)
C23_FilmTablesFollowStreams ==
    (called.op \in StreamOrDtOps /\ ~crashed) =>
        /\ FilmMatches(hot_film_coef, hot)
        /\ FilmMatches(cold_film_coef, cold)
        /\ AreaComputed =>
               /\ PairedWithOwn(area_network[2], hot_film_coef, hot)
               /\ PairedWithOwn(area_network[3], cold_film_coef, cold)

(* the three parts of C23 one by one *)
C23_TablesMatchOnReturn ==
    (called.op \in {"add_stream", "delete_stream"} /\ ~crashed) =>
        FilmMatches(hot_film_coef, hot) /\ FilmMatches(cold_film_coef, cold)

C23_IdsMatchAtEdit ==
    (called.op \in {"dt", "stream_edit"} /\ ~crashed) =>
        FilmMatches(hot_film_coef, hot) /\ FilmMatches(cold_film_coef, cold)

C23_AreaPairedWithOwn ==
    (called.op \in StreamOrDtOps /\ ~crashed /\ AreaComputed) =>
        /\ PairedWithOwn(area_network[2], hot_film_coef, hot)
        /\ PairedWithOwn(area_network[3], cold_film_coef, cold)

(***************************************************************************)
(* Borders and segments of the composite diagram                           *)
(***************************************************************************)
BorderLoopReturned == called.op = "new_borders"

(* the temperatures, in 1/Grid degrees, that linear interpolation gives at *)
(* Q inside the pieces of a curve that enclose Q; NaN when none does       *)
InterpolatedAt(Q, curve) ==
    LET encl == {j \in 1..(Len(curve) - 1) :
                    /\ curve[j].Q <= Q /\ Q <= curve[j + 1].Q
                    /\ curve[j].Q < curve[j + 1].Q}
    IN  IF encl = {} THEN {NaN}
        ELSE {Grid * curve[j].T
                + ((Q - curve[j].Q) * Grid * (curve[j + 1].T - curve[j].T))
                      \div (curve[j + 1].Q - curve[j].Q) : j \in encl}

(* the loop computed a border at the vertex v of the hot curve *)
HasHotBorderAt(v) ==
    \E k \in DOMAIN returned :
        /\ returned[k].Q = v.Q
        /\ returned[k].hot = Grid * v.T
        /\ returned[k].cold \in InterpolatedAt(v.Q, cold_composite_data)

(* the loop computed a border at the vertex v of the cold curve *)
HasColdBorderAt(v) ==
    \E k \in DOMAIN returned :
        /\ returned[k].Q = v.Q
        /\ returned[k].cold = Grid * v.T
        /\ returned[k].hot \in InterpolatedAt(v.Q, hot_composite_data)

(* C25: for every vertex (Q_v, T_v) of the hot or of the cold composite    *)
(* curve, the border computed at Q_v has on that curve the temperature T_v *)
(* and on the other curve the temperature interpolated inside the piece    *)
(* that encloses Q_v, also when a curve has a piece of zero enthalpy width.*)
C25_BordersThroughVertices ==
    BorderLoopReturned =>
        /\ \A i \in DOMAIN hot_composite_data : HasHotBorderAt(hot_composite_data[i])
        /\ \A i \in DOMAIN cold_composite_data : HasColdBorderAt(cold_composite_data[i])

SegmentsReturned == called.op = "calculate_segments_data" /\ raised = "none"

(* the stream covers the temperature range lo..hi (1/Grid degrees) *)
Covers(s, lo, hi) ==
    LET t_min == IF s.TIN < s.TOUT THEN s.TIN ELSE s.TOUT
        t_max == IF s.TIN < s.TOUT THEN s.TOUT ELSE s.TIN
    IN  Grid * t_min <= lo /\ hi <= Grid * t_max

(* C29: in every segment of calculate_segments_data the enthalpies written *)
(* for the hot streams sum to the enthalpy width of the segment, and so do *)
(* those of the cold streams; a stream is credited only over temperatures  *)
(* that it covers.                                                         *)
C29_SegmentEnthalpiesBalance ==
    SegmentsReturned =>
        \A n \in DOMAIN returned :
            LET seg == returned[n]
            IN  /\ SumSeq(seg.Qh) = Grid * seg.Q
                /\ SumSeq(seg.Qc) = Grid * seg.Q
                /\ \A k \in DOMAIN hot :
                       seg.Qh[k] # 0 => Covers(hot[k], seg.HOT_IN, seg.HOT_OUT)
                /\ \A k \in DOMAIN cold :
                       seg.Qc[k] # 0 => Covers(cold[k], seg.COLD_IN, seg.COLD_OUT)

(***************************************************************************)
(* Cost data lookup                                                        *)
(***************************************************************************)
ExchangerDataCalled == called.op = "_get_exchanger_data"

(* the rows of the looked-up table whose pressure bracket holds p *)
BracketsOf(p) ==
    {i \in DOMAIN args.exdata : args.exdata[i].PMIN <= p /\ p <= args.exdata[i].PMAX}

AreaInside(row) == row.AMIN <= args.area /\ args.area <= row.AMAX

(* C26: for a known (exchanger type, arrangement) the lookup either raises *)
(* the range error, when the pressure is outside the stored brackets or    *)
(* the area outside [AMIN, AMAX] of the selected bracket, or returns the   *)
(* coefficients of the one selected bracket; it fails in no other way,     *)
(* also for a pressure equal to the highest PMAX or between two brackets.  *)
C26_LookupRaisesRangeErrorOrReturns ==
    ExchangerDataCalled =>
        \/ /\ raised = "none"
           /\ \E i \in BracketsOf(args.pressure) : returned = args.exdata[i]
           /\ AreaInside(returned)
        \/ /\ raised = "ValueError"
           /\ \/ BracketsOf(args.pressure) = {}
              \/ \E i \in BracketsOf(args.pressure) : ~AreaInside(args.exdata[i])

EaocCalled == called.op = "calculate_eaoc"

(* calculate_eaoc for the candidate d alone, on the tables the loop was given *)
EaocAlone(d) ==
    calculate_eaoc(args.hot, args.cold, d, args.hot_coef, args.cold_coef)

(* the pinch of the candidate d on the tables the loop was given *)
EaocPinch(d) ==
    calculate_pinch_utilities(calculate_summary_table(args.hot, args.cold, d)).pinch

(* the above-branch target plus the below-branch target of the candidate d *)
EaocTargets(d) ==
    CHOOSE n \in
        {calculate_minimum_exchangers(pt.ha, pt.ca, "above")
         + calculate_minimum_exchangers(pt.hb, pt.cb, "below") :
            pt \in {pinch_streams_tables(args.hot, args.cold, d, p,
                                         args.hot_coef, args.cold_coef) :
                       p \in {EaocPinch(d)}}} : TRUE

Reloaded ==
    LET doc == LoadedDocument(save)
        hf == SyncIds(doc.hot_film, doc.hot)
        cf == SyncIds(doc.cold_film, doc.cold)
    IN  [hot |-> doc.hot, cold |-> doc.cold, dt |-> doc.dt,
         hot_film |-> hf, cold_film |-> cf,
         u |-> UpdateResult(doc.hot, doc.cold, doc.dt, hf, cf, <<NaN>>),
         design |-> doc.design, tables |-> doc.tables]

(* a session with streams, a minimum approach temperature, partition      *)
(* tables and exchangers in both ledgers                                   *)
Saveable ==
    /\ Running
    /\ hot # <<>> /\ cold # <<>> /\ dt # NaN
    /\ design_above # <<>> /\ design_below # <<>>

(* C22: in every state with streams, film coefficients, a minimum approach *)
(* temperature, partition tables and non-empty ledgers, save followed by   *)
(* load into a fresh instance gives the same streams, film coefficients,   *)
(* minimum approach temperature, four partition tables and two ledgers,    *)
(* and the same pinch, hot and cold utility and network area.              *)
C22_SaveLoadRoundTrip ==
    Saveable =>
        \E r \in {Reloaded} :
           /\ ~r.u.crashes
           /\ r.hot = hot /\ r.cold = cold /\ r.dt = dt
           /\ r.hot_film = hot_film_coef /\ r.cold_film = cold_film_coef
           /\ r.tables.ha = hot_above /\ r.tables.ca = cold_above
           /\ r.tables.hb = hot_below /\ r.tables.cb = cold_below
           /\ r.design.above = design_above /\ r.design.below = design_below
           /\ r.u.pinch = pinch
           /\ r.u.hur = hot_util_req /\ r.u.cur = cold_util_req
           /\ r.u.area = area_network

====
